---- MODULE Spec2Model ----
(***************************************************************************)
(* Call lifecycle controller (call-routes.js) and real-time signaling      *)
(* relay (call-signaling.js) of the Matrix chat backend.                   *)
(*                                                                         *)
(* The Store is PostgreSQL at its default isolation level READ COMMITTED:  *)
(* a plain SELECT reads the committed rows and takes no lock; an UPDATE of *)
(* a session row takes that row's lock until COMMIT or ROLLBACK and then   *)
(* works on the latest committed version of the row.  The statements that  *)
(* follow the session UPDATE inside one transaction are applied together   *)
(* with its COMMIT: the transaction holds the session row lock from the    *)
(* UPDATE on, so no other lifecycle transaction of the call runs between   *)
(* them, and a single-statement writer of a participant row either waits   *)
(* for the COMMIT or does not see the uncommitted row.                     *)
(***************************************************************************)
EXTENDS Integers, Sequences, FiniteSets, Bags, TLC

\* ------------------------------------------------------------------ bounds
MaxCalls == 1
MaxRequests == 3
MaxSockEvents == 3

\* ----------------------------------------------------------------- domains
Users == {"A", "B", "C"}
Sockets == {"s1", "s2", "s3"}
Slots == {1, 2}
CallIds == 1 .. MaxCalls
\* The ids generateCallId can return when one call more is placed.
CallRange == 1 .. MaxCalls + 1
NoCall == 0
NoUser == ""
NULL == "null"

ICE_SERVERS ==
    << "stun:stun.l.google.com:19302",
       "stun:stun1.l.google.com:19302",
       "stun:stun2.l.google.com:19302" >>

VARIABLES
    call_sessions,            \* table: sequence of session rows
    call_participants,        \* table: sequence of participant rows
    call_events,              \* table: bag of event rows (append-only)
    rowLock,                  \* call_id -> slot whose transaction holds the session row lock
    req,                      \* slot -> the HTTP request handler running in it
    reqCount,                 \* HTTP requests received so far
    callSeq,                  \* call ids generated so far
    aged,                     \* call ids whose created_at is 90 seconds or more in the past
    userSockets,              \* Map<userId, Set<socketId>>
    callParticipants,         \* Map<callId, Set<userId>>
    pendingCallNotifications, \* Map<userId, Array<callEvent>>
    timers,                   \* armed setTimeout closures of notifyIncomingCall
    sock,                     \* socket id -> connection state and socket.userId / socket.callId
    handler,                  \* socket id -> suspended register-user handler
    relays,                   \* suspended webrtc-offer / webrtc-answer handlers
    sockCount,                \* client socket events received so far
    received,                 \* socket id -> call id -> incoming-call events delivered to it
    last                      \* the step just taken and what it emitted

store == << call_sessions, call_participants, call_events >>
registry == << userSockets, callParticipants, pendingCallNotifications, timers >>
vars == << call_sessions, call_participants, call_events, rowLock, req, reqCount,
           callSeq, aged, userSockets, callParticipants, pendingCallNotifications,
           timers, sock, handler, relays, sockCount, received, last >>

\* ------------------------------------------------------------- Map helpers
Has(map, k) == k \in DOMAIN map
Get(map, k) == IF k \in DOMAIN map THEN map[k] ELSE {}
Put(map, k, v) == [x \in DOMAIN map \cup {k} |-> IF x = k THEN v ELSE map[x]]
Delete(map, k) == [x \in DOMAIN map \ {k} |-> map[x]]
EmptyMap == [x \in {} |-> {}]

\* ------------------------------------------------------------------- Store
SessionRows(tbl, c) == {i \in DOMAIN tbl : tbl[i].call_id = c}
SessionExists(c) == SessionRows(call_sessions, c) # {}
SessionRow(c) == call_sessions[CHOOSE i \in SessionRows(call_sessions, c) : TRUE]
StatusOf(c) == IF SessionExists(c) THEN SessionRow(c).status ELSE "none"

ParticipantRows(tbl, c, u) ==
    {i \in DOMAIN tbl : tbl[i].call_id = c /\ tbl[i].matrix_user_id = u}
CallParticipantRows(tbl, c) == {i \in DOMAIN tbl : tbl[i].call_id = c}

EventRow(c, u, t) == [call_id |-> c, matrix_user_id |-> u, event_type |-> t]
\* call_events.call_id REFERENCES call_sessions(call_id), matrix_user_id NOT NULL:
\* an insert for an unknown call or without a user fails and inserts nothing.
InsertEvent(tbl, sessions, c, u, t) ==
    IF SessionRows(sessions, c) # {} /\ u # NoUser
    THEN tbl (+) SetToBag({EventRow(c, u, t)})
    ELSE tbl
\* --------------------------------------------------------------- emissions
Emit(S, ev, c, by) == SetToBag({[to |-> s, ev |-> ev, callId |-> c, by |-> by] : s \in S})
NoEmits == EmptyBag
Step(op, s, c, u, status, members, emits) ==
    [op |-> op, sock |-> s, callId |-> c, user |-> u, status |-> status,
     target |-> "", members |-> members, emits |-> emits, upstream |-> TRUE]
\* A step with no response and no emission.
Quiet == Step("", "", NoCall, NoUser, "", {}, NoEmits)
Relayed(op, s, c, u, target, emits) ==
    [Step(op, s, c, u, "", {}, emits) EXCEPT !.target = target]

\* NOW(): a timestamp column holds NULL or a time; which time is not modelled.
Now == "now"

\* ------------------------------------------------------- request handlers
NoRes == [code |-> 0, error |-> "", callId |-> NoCall, status |-> "", iceServers |-> << >>]
Idle ==
    [op |-> "none", pc |-> "idle", callId |-> NoCall, userId |-> NoUser,
     roomId |-> "", callType |-> "", accessToken |-> "", room_id |-> "",
     initiator_id |-> NoUser, callerDisplayName |-> "", res |-> NoRes,
     session |-> << >>, participants |-> {}, calls |-> {},
     kind |-> "", enabled |-> [type |-> "undefined", value |-> FALSE],
     clients |-> 0, released |-> 0, sent |-> 0]
Error(code, msg) == [NoRes EXCEPT !.code = code, !.error = msg]
Free(r) == req[r].pc \in {"idle", "done"}
Received(r, op, c, u, tok) ==
    [Idle EXCEPT !.op = op, !.callId = c, !.userId = u, !.accessToken = tok]
\* res.json(...) as the last statement of a handler; sent counts the responses.
Done(rq, res) == [rq EXCEPT !.pc = "done", !.res = res, !.sent = @ + 1]
\* const client = await pool.connect()
Connected(rq) == [rq EXCEPT !.clients = @ + 1]
\* client.release()
Released(rq) == [rq EXCEPT !.released = @ + 1]

generateCallId == callSeq + 1

SessionInsert(c, roomId, callType, userId) ==
    [call_id |-> c, room_id |-> roomId, call_type |-> callType, status |-> "ringing",
     initiator_id |-> userId, started_at |-> NULL, ended_at |-> NULL]
\* Faulty variant: the status column is left to its DEFAULT 'invited'.
ParticipantInsert_DefaultStatus(c, u, status, joined_at) ==
    [call_id |-> c, matrix_user_id |-> u, status |-> "invited", audio_enabled |-> TRUE,
     video_enabled |-> TRUE, joined_at |-> joined_at, left_at |-> NULL]
ParticipantInsert(c, u, status, joined_at) ==
    [call_id |-> c, matrix_user_id |-> u, status |-> status, audio_enabled |-> TRUE,
     video_enabled |-> TRUE, joined_at |-> joined_at, left_at |-> NULL]

\* Faulty variant: the failure of the request to the homeserver is rethrown.
MatrixEventCaught_OnlyIfSent(sent) == sent
\* try { await sendMatrixCallEvent(...) } catch (err) { console.log(...) }: the
\* handler goes on whether the homeserver took the event (sent) or not.
MatrixEventCaught(sent) == TRUE

FailureMessage(op) ==
    CASE op = "initiate" -> "Failed to initiate call"
      [] op = "answer" -> "Failed to answer call"
      [] op = "reject" -> "Failed to reject call"
      [] OTHER -> "Failed to end call"
\* Faulty variant: the error is logged and the handler goes on to notify.
AfterFailure_Continues(rq) == [rq EXCEPT !.pc = "notify"]
\* res.status(500).json({ error })
AfterFailure(rq) == Done(Released(rq), Error(500, FailureMessage(rq.op)))

\* Faulty variant: the client goes back to the pool with its transaction open.
RolledBack_StillOpen(lock, r) == lock
\* ROLLBACK: the row locks of the transaction are released.
RolledBack(lock, r) == [c \in CallRange |-> IF lock[c] = r THEN 0 ELSE lock[c]]

\* The catch block of a route: ROLLBACK, which drops the writes and the row
\* lock of the transaction, and the 500 response.
Thrown(r) ==
    /\ req' = [req EXCEPT ![r] = AfterFailure(@)]
    /\ rowLock' = RolledBack(rowLock, r)
    /\ last' = Step("Thrown", "", req[r].callId, req[r].userId, "", {}, NoEmits)
    /\ UNCHANGED << store, reqCount, callSeq, aged, registry, sock, handler, relays,
                    sockCount, received >>

\* A statement of the open transaction of a route fails.
StoreFailure(r) ==
    /\ req[r].op \in {"initiate", "answer", "reject", "end"}
    /\ req[r].pc \in {"update", "commit"}
    /\ Thrown(r)

\* A statement of the open transaction fails and the ROLLBACK of the catch block
\* is rejected as well: the error leaves the handler before res.status(500), the
\* finally block releases the client; the Store aborts the transaction.
RollbackFailure(r) ==
    /\ req[r].op \in {"initiate", "answer", "reject", "end"}
    /\ req[r].pc \in {"update", "commit"}
    /\ req' = [req EXCEPT ![r] = [Released(@) EXCEPT !.pc = "done"]]
    /\ rowLock' = RolledBack(rowLock, r)
    /\ last' = Step("RollbackFailure", "", req[r].callId, req[r].userId, "", {}, NoEmits)
    /\ UNCHANGED << store, reqCount, callSeq, aged, registry, sock, handler, relays,
                    sockCount, received >>

\* Faulty variant: the call type is not checked.
ValidCallType_Any(callType) == TRUE
\* ['voice', 'video'].includes(callType)
ValidCallType(callType) == callType \in {"voice", "video"}

\* POST /initiate, up to the first statement: validation, BEGIN, generateCallId;
\* limit caps the number of calls placed.
InitiateWithin(limit, r, roomId, callType, accessToken, userId) ==
    /\ Free(r)
    /\ reqCount < MaxRequests
    /\ reqCount' = reqCount + 1
    /\ LET rq == [Received(r, "initiate", NoCall, userId, accessToken)
                     EXCEPT !.roomId = roomId, !.callType = callType]
       IN IF roomId = "" \/ callType = "" \/ accessToken = "" \/ userId = NoUser
          THEN /\ req' = [req EXCEPT ![r] =
                    Done(rq, Error(400, "roomId, callType, accessToken, and userId required"))]
               /\ callSeq' = callSeq
          ELSE IF ~ValidCallType(callType)
          THEN /\ req' = [req EXCEPT ![r] =
                    Done(rq, Error(400, "callType must be voice or video"))]
               /\ callSeq' = callSeq
          ELSE /\ callSeq < limit
               /\ callSeq' = callSeq + 1
               /\ req' = [req EXCEPT ![r] =
                    [Connected(rq) EXCEPT !.pc = "commit", !.callId = generateCallId]]
    /\ last' = IF req'[r].pc = "done"
               THEN Step("InitiateBegin", "", NoCall, userId, "", {}, NoEmits)
               ELSE Quiet
    /\ UNCHANGED << store, rowLock, aged, registry, sock, handler, relays, sockCount,
                    received >>

InitiateBegin(r, roomId, callType, accessToken, userId) ==
    InitiateWithin(MaxCalls, r, roomId, callType, accessToken, userId)

\* Faulty variant: the handler goes on to notifyIncomingCall with its transaction open.
Committed_StillOpen(tbl, row) == tbl
\* What the other connections read of a table once COMMIT has returned.
Committed(tbl, row) == Append(tbl, row)

\* The three INSERTs become visible with COMMIT; the handler then releases the
\* client and answers 201 before it starts notifyIncomingCall.
InitiateWrites(r, displayname, sent) ==
    /\ req[r].pc = "commit"
    /\ req[r].op = "initiate"
    /\ IF ~MatrixEventCaught(sent) THEN Thrown(r) ELSE
       LET rq == req[r]
           c == rq.callId
           sessions == Committed(call_sessions,
                                 SessionInsert(c, rq.roomId, rq.callType, rq.userId))
       IN /\ call_sessions' = sessions
          /\ call_participants' =
                 Committed(call_participants, ParticipantInsert(c, rq.userId, "joined", NULL))
          /\ call_events' = InsertEvent(call_events, sessions, c, rq.userId, "call_initiated")
          /\ req' = [req EXCEPT ![r] =
                 [Released(rq) EXCEPT !.pc = "notify", !.sent = @ + 1,
                            !.callerDisplayName =
                                IF displayname = "" THEN rq.userId ELSE displayname,
                            !.res = [code |-> 201, error |-> "", callId |-> c,
                                     status |-> "ringing", iceServers |-> ICE_SERVERS]]]
          /\ last' = [Step("InitiateCommit", "", c, rq.userId, "ringing", {}, NoEmits)
                         EXCEPT !.upstream = sent]
          /\ UNCHANGED << rowLock, reqCount, callSeq, aged, registry, sock, handler, relays,
                          sockCount, received >>

\* ... when the m.call.invite event reached the homeserver.
InitiateCommit(r, displayname) == InitiateWrites(r, displayname, TRUE)

\* ---------------------------------------------------------- delivery
RECURSIVE SumBags(_, _)
SumBags(S, f) ==
    IF S = {} THEN EmptyBag
    ELSE LET x == CHOOSE y \in S : TRUE IN f[x] (+) SumBags(S \ {x}, f)
RECURSIVE SumOver(_, _)
SumOver(S, f) ==
    IF S = {} THEN 0
    ELSE LET x == CHOOSE y \in S : TRUE IN f[x] + SumOver(S \ {x}, f)
\* How many times the emissions address event ev of call c to socket id s.
Count(emits, s, ev, c) ==
    SumOver({e \in BagToSet(emits) : e.to = s /\ e.ev = ev /\ e.callId = c},
            [e \in BagToSet(emits) |-> CopiesIn(e, emits)])
\* io.to(socketId).emit reaches the socket only while it is connected.
Deliver(emits) ==
    [s \in Sockets |-> [c \in CallRange |->
        received[s][c] +
        IF sock[s].state = "connected" THEN Count(emits, s, "incoming-call", c) ELSE 0]]

\* ------------------------------------------------- notifyIncomingCall
CallEvent(c, callType, roomId, callerName, initiatorId) ==
    [callId |-> c, callType |-> callType, roomId |-> roomId, callerName |-> callerName,
     callerId |-> initiatorId, iceServers |-> ICE_SERVERS]
Online(m) == Has(userSockets, m) /\ Cardinality(userSockets[m]) > 0
PendingOf(map, u) == IF Has(map, u) THEN map[u] ELSE << >>

\* Faulty variant: the initiator is not filtered out.
potentialRecipients_All(roomMembers, initiatorId) == roomMembers
potentialRecipients(roomMembers, initiatorId) == {m \in roomMembers : m # initiatorId}

\* notifyIncomingCall after getRoomMembers has resolved to roomMembers ({} when
\* the request to the homeserver failed); ends POST /initiate.
NotifyIncomingCall(r, roomMembers) ==
    /\ req[r].pc = "notify"
    /\ req[r].op = "initiate"
    /\ LET rq == req[r]
           c == rq.callId
           initiatorId == rq.userId
           recipients == potentialRecipients(roomMembers, initiatorId)
           callEvent == CallEvent(c, rq.callType, rq.roomId, rq.callerDisplayName, initiatorId)
           live == {m \in recipients : Online(m)}
           offline == recipients \ live
           emits == SumBags(live,
                       [m \in live |-> Emit(userSockets[m], "incoming-call", c, initiatorId)])
       IN /\ pendingCallNotifications' =
                 [u \in DOMAIN pendingCallNotifications \cup offline |->
                     IF u \in offline
                     THEN Append(PendingOf(pendingCallNotifications, u), callEvent)
                     ELSE pendingCallNotifications[u]]
          \* a suspended register-user handler iterates the very array the Map holds
          /\ handler' = [s \in Sockets |->
                 IF handler[s].pc # "idle" /\ handler[s].shared /\ handler[s].userId \in offline
                 THEN [handler[s] EXCEPT !.arr = Append(@, callEvent)]
                 ELSE handler[s]]
          /\ timers' = timers \cup {[recipientId |-> m, callId |-> c] : m \in offline}
          /\ received' = Deliver(emits)
          /\ req' = [req EXCEPT ![r].pc = "done"]
          /\ last' = Step("notifyIncomingCall", "", c, initiatorId, "", roomMembers, emits)
    /\ UNCHANGED << store, rowLock, reqCount, callSeq, aged, userSockets, callParticipants,
                    sock, relays, sockCount >>

EventCount(c, t) ==
    SumOver({e \in BagToSet(call_events) : e.call_id = c /\ e.event_type = t},
            [e \in BagToSet(call_events) |-> CopiesIn(e, call_events)])

\* ------------------------------------------------------------ SQL updates
\* Faulty variant: the status is set without its timestamp.
UpdateSession_StatusOnly(tbl, c, status, column) ==
    [i \in DOMAIN tbl |->
        IF tbl[i].call_id = c THEN [tbl[i] EXCEPT !.status = status] ELSE tbl[i]]

UpdateSession(tbl, c, status, column) ==
    [i \in DOMAIN tbl |->
        IF tbl[i].call_id = c
        THEN IF column = "started_at"
             THEN [tbl[i] EXCEPT !.status = status, !.started_at = Now]
             ELSE [tbl[i] EXCEPT !.status = status, !.ended_at = Now]
        ELSE tbl[i]]
\* Faulty variant: a plain INSERT in place of the upsert.
UpsertJoined_PlainInsert(tbl, c, u) ==
    Append(tbl, ParticipantInsert(c, u, "joined", Now))
\* UPDATE ... SET status = 'joined' WHERE (call, user), then INSERT ... WHERE NOT EXISTS
UpsertJoined(tbl, c, u) ==
    LET updated == [i \in DOMAIN tbl |->
                       IF tbl[i].call_id = c /\ tbl[i].matrix_user_id = u
                       THEN [tbl[i] EXCEPT !.status = "joined", !.joined_at = Now]
                       ELSE tbl[i]]
    IN IF ParticipantRows(updated, c, u) = {}
       THEN Append(updated, ParticipantInsert(c, u, "joined", Now))
       ELSE updated
SetRejected(tbl, c, u) ==
    [i \in DOMAIN tbl |->
        IF tbl[i].call_id = c /\ tbl[i].matrix_user_id = u
        THEN [tbl[i] EXCEPT !.status = "rejected"]
        ELSE tbl[i]]
\* Faulty variant: the rows that had left are joined again.
SetJoinedLeft_Swap(tbl, c) ==
    [i \in DOMAIN tbl |->
        IF tbl[i].call_id = c /\ tbl[i].status = "joined"
        THEN [tbl[i] EXCEPT !.status = "left", !.left_at = Now]
        ELSE IF tbl[i].call_id = c /\ tbl[i].status = "left"
        THEN [tbl[i] EXCEPT !.status = "joined"]
        ELSE tbl[i]]
\* UPDATE call_participants SET status = 'left', left_at = NOW()
\* WHERE call_id = $1 AND status = 'joined'
SetJoinedLeft(tbl, c) ==
    [i \in DOMAIN tbl |->
        IF tbl[i].call_id = c /\ tbl[i].status = "joined"
        THEN [tbl[i] EXCEPT !.status = "left", !.left_at = Now]
        ELSE tbl[i]]

\* The session UPDATE of a transaction: waits for the row lock, then holds it.
LockRow(r, op) ==
    /\ req[r].pc = "update"
    /\ req[r].op = op
    /\ rowLock[req[r].callId] \notin Slots
    /\ rowLock' = [rowLock EXCEPT ![req[r].callId] = r]
    /\ req' = [req EXCEPT ![r].pc = "commit"]
    /\ last' = Quiet
    /\ UNCHANGED << store, reqCount, callSeq, aged, registry, sock, handler, relays,
                    sockCount, received >>

\* ------------------------------------------------- POST /:callId/answer
\* Faulty variant: the status of the selected row is not compared with 'ringing'.
AnswerSelect_NoStatusCheck(r, c, userId, accessToken) ==
    /\ Free(r)
    /\ reqCount < MaxRequests
    /\ reqCount' = reqCount + 1
    /\ LET rq == Received(r, "answer", c, userId, accessToken)
       IN req' = [req EXCEPT ![r] =
            IF userId = NoUser \/ accessToken = ""
            THEN Done(rq, Error(400, "userId and accessToken required"))
            ELSE IF ~SessionExists(c)
            THEN Done(Released(Connected(rq)), Error(404, "Call not found"))
            ELSE [Connected(rq) EXCEPT !.pc = "update", !.room_id = SessionRow(c).room_id,
                            !.initiator_id = SessionRow(c).initiator_id]]
    /\ last' = Step("AnswerSelect", "", c, userId, StatusOf(c), {}, NoEmits)
    /\ UNCHANGED << store, rowLock, callSeq, aged, registry, sock, handler, relays,
                    sockCount, received >>
\* Validation, BEGIN and the SELECT of the session row.
AnswerSelect(r, c, userId, accessToken) ==
    /\ Free(r)
    /\ reqCount < MaxRequests
    /\ reqCount' = reqCount + 1
    /\ LET rq == Received(r, "answer", c, userId, accessToken)
       IN req' = [req EXCEPT ![r] =
            IF userId = NoUser \/ accessToken = ""
            THEN Done(rq, Error(400, "userId and accessToken required"))
            ELSE IF ~SessionExists(c)
            THEN Done(Released(Connected(rq)), Error(404, "Call not found"))
            ELSE IF SessionRow(c).status # "ringing"
            THEN Done(Released(Connected(rq)), Error(400, "Call is not in ringing state"))
            ELSE [Connected(rq) EXCEPT !.pc = "update", !.room_id = SessionRow(c).room_id,
                            !.initiator_id = SessionRow(c).initiator_id]]
    /\ last' = Step("AnswerSelect", "", c, userId, StatusOf(c), {}, NoEmits)
    /\ UNCHANGED << store, rowLock, callSeq, aged, registry, sock, handler, relays,
                    sockCount, received >>

AnswerUpdate(r) == LockRow(r, "answer")

\* The statements after the session UPDATE, the m.call event and COMMIT.
AnswerWrites(r, sent) ==
    /\ req[r].pc = "commit"
    /\ req[r].op = "answer"
    /\ IF ~MatrixEventCaught(sent) THEN Thrown(r) ELSE
       LET c == req[r].callId
           u == req[r].userId
       IN /\ call_sessions' = UpdateSession(call_sessions, c, "active", "started_at")
          /\ call_participants' = UpsertJoined(call_participants, c, u)
          /\ call_events' = InsertEvent(call_events, call_sessions, c, u, "call_answered")
          /\ rowLock' = [rowLock EXCEPT ![c] = 0]
          /\ last' = IF sent THEN Quiet
                     ELSE [Step("AnswerCommit", "", c, u, "", {}, NoEmits)
                              EXCEPT !.upstream = FALSE]
          /\ req' = [req EXCEPT ![r].pc = "notify"]
          /\ UNCHANGED << reqCount, callSeq, aged, registry, sock, handler, relays,
                          sockCount, received >>

AnswerCommit(r) == AnswerWrites(r, TRUE)

\* After COMMIT: call-answered to the initiator's sockets, then the response.
AnswerNotify(r) ==
    /\ req[r].pc = "notify"
    /\ req[r].op = "answer"
    /\ LET c == req[r].callId
           emits == IF req[r].initiator_id # NoUser /\ Has(userSockets, req[r].initiator_id)
                    THEN Emit(userSockets[req[r].initiator_id], "call-answered", c,
                              req[r].userId)
                    ELSE NoEmits
       IN /\ req' = [req EXCEPT ![r] =
                 Done(Released(@), [code |-> 200, error |-> "", callId |-> c, status |-> "active",
                          iceServers |-> ICE_SERVERS])]
          /\ last' = Step("AnswerNotify", "", c, req[r].userId, "active", {}, emits)
    /\ UNCHANGED << store, rowLock, reqCount, callSeq, aged, registry, sock, handler, relays,
                    sockCount, received >>

\* ------------------------------------------------- POST /:callId/reject
RejectSelect(r, c, userId, accessToken) ==
    /\ Free(r)
    /\ reqCount < MaxRequests
    /\ reqCount' = reqCount + 1
    /\ LET rq == Received(r, "reject", c, userId, accessToken)
       IN req' = [req EXCEPT ![r] =
            IF userId = NoUser \/ accessToken = ""
            THEN Done(rq, Error(400, "userId and accessToken required"))
            ELSE IF ~SessionExists(c)
            THEN Done(Released(Connected(rq)), Error(404, "Call not found"))
            ELSE [Connected(rq) EXCEPT !.pc = "update", !.room_id = SessionRow(c).room_id,
                            !.initiator_id = SessionRow(c).initiator_id]]
    /\ last' = Step("RejectSelect", "", c, userId, StatusOf(c), {}, NoEmits)
    /\ UNCHANGED << store, rowLock, callSeq, aged, registry, sock, handler, relays,
                    sockCount, received >>

RejectUpdate(r) == LockRow(r, "reject")

\* The statements after the session UPDATE, the m.call event and COMMIT.
RejectWrites(r, sent) ==
    /\ req[r].pc = "commit"
    /\ req[r].op = "reject"
    /\ IF ~MatrixEventCaught(sent) THEN Thrown(r) ELSE
       LET c == req[r].callId
           u == req[r].userId
       IN /\ call_sessions' = UpdateSession(call_sessions, c, "rejected", "ended_at")
          /\ call_participants' = SetRejected(call_participants, c, u)
          /\ call_events' = InsertEvent(call_events, call_sessions, c, u, "call_rejected")
          /\ rowLock' = [rowLock EXCEPT ![c] = 0]
          /\ last' = IF sent THEN Quiet
                     ELSE [Step("RejectCommit", "", c, u, "", {}, NoEmits)
                              EXCEPT !.upstream = FALSE]
          /\ req' = [req EXCEPT ![r].pc = "notify"]
          /\ UNCHANGED << reqCount, callSeq, aged, registry, sock, handler, relays,
                          sockCount, received >>

RejectCommit(r) == RejectWrites(r, TRUE)

RejectNotify(r) ==
    /\ req[r].pc = "notify"
    /\ req[r].op = "reject"
    /\ LET c == req[r].callId
           emits == IF req[r].initiator_id # NoUser /\ Has(userSockets, req[r].initiator_id)
                    THEN Emit(userSockets[req[r].initiator_id], "call-rejected", c,
                              req[r].userId)
                    ELSE NoEmits
       IN /\ req' = [req EXCEPT ![r] =
                 Done(Released(@), [code |-> 200, error |-> "", callId |-> c, status |-> "rejected",
                          iceServers |-> << >>])]
          /\ last' = Step("RejectNotify", "", c, req[r].userId, "rejected", {}, emits)
    /\ UNCHANGED << store, rowLock, reqCount, callSeq, aged, registry, sock, handler, relays,
                    sockCount, received >>

\* ---------------------------------------------------- POST /:callId/end
EndSelect(r, c, userId, accessToken) ==
    /\ Free(r)
    /\ reqCount < MaxRequests
    /\ reqCount' = reqCount + 1
    /\ LET rq == Received(r, "end", c, userId, accessToken)
       IN req' = [req EXCEPT ![r] =
            IF userId = NoUser
            THEN Done(rq, Error(400, "userId required"))
            ELSE IF ~SessionExists(c)
            THEN Done(Released(Connected(rq)), Error(404, "Call not found"))
            ELSE [Connected(rq) EXCEPT !.pc = "update", !.room_id = SessionRow(c).room_id]]
    /\ last' = Step("EndSelect", "", c, userId, StatusOf(c), {}, NoEmits)
    /\ UNCHANGED << store, rowLock, callSeq, aged, registry, sock, handler, relays,
                    sockCount, received >>

EndUpdate(r) == LockRow(r, "end")

\* The statements after the session UPDATE, the m.call event and COMMIT.
EndWrites(r, sent) ==
    /\ req[r].pc = "commit"
    /\ req[r].op = "end"
    /\ IF ~MatrixEventCaught(sent) /\ req[r].accessToken # "" THEN Thrown(r) ELSE
       LET c == req[r].callId
           u == req[r].userId
       IN /\ call_sessions' = UpdateSession(call_sessions, c, "ended", "ended_at")
          /\ call_participants' = SetJoinedLeft(call_participants, c)
          /\ call_events' = InsertEvent(call_events, call_sessions, c, u, "call_ended")
          /\ rowLock' = [rowLock EXCEPT ![c] = 0]
          /\ last' = IF sent THEN Quiet
                     ELSE [Step("EndCommit", "", c, u, "", {}, NoEmits)
                              EXCEPT !.upstream = FALSE]
          /\ req' = [req EXCEPT ![r].pc = "notify"]
          /\ UNCHANGED << reqCount, callSeq, aged, registry, sock, handler, relays,
                          sockCount, received >>

EndCommit(r) == EndWrites(r, TRUE)

\* Sockets in the Socket.IO room of the call.
RoomSockets(c) == {s \in Sockets : sock[s].state = "connected" /\ c \in sock[s].rooms}

\* Faulty variant: only the Socket.IO room of the call is told.
notifyCallEnded_RoomOnly(callId, endedBy) ==
    Emit(RoomSockets(callId), "call-ended", callId, endedBy)
notifyCallEnded(callId, endedBy) ==
    LET participants == Get(callParticipants, callId)
        others == {p \in participants : p # endedBy}
    IN SumBags(others, [p \in others |->
                  Emit(Get(userSockets, p), "call-ended", callId, endedBy)])
       (+) Emit(RoomSockets(callId), "call-ended", callId, endedBy)

EndNotify(r) ==
    /\ req[r].pc = "notify"
    /\ req[r].op = "end"
    /\ LET c == req[r].callId
       IN /\ req' = [req EXCEPT ![r] =
                 Done(Released(@), [code |-> 200, error |-> "", callId |-> c, status |-> "ended",
                          iceServers |-> << >>])]
          /\ last' = Step("EndNotify", "", c, req[r].userId, "ended", {},
                          notifyCallEnded(c, req[r].userId))
    /\ UNCHANGED << store, rowLock, reqCount, callSeq, aged, registry, sock, handler, relays,
                    sockCount, received >>

\* ------------------------------------------------------- GET /active
\* cs.created_at > NOW() - INTERVAL '90 seconds' stops holding once for a row. The
\* database clock is not the clock of the process's timers.
Elapse(c) ==
    /\ SessionExists(c)
    /\ c \notin aged
    /\ aged' = aged \cup {c}
    /\ last' = Quiet
    /\ UNCHANGED << store, rowLock, req, reqCount, callSeq, registry, sock, handler,
                    relays, sockCount, received >>

\* SELECT cs.call_id, cs.room_id, cs.call_type, cs.initiator_id, cs.status, cs.created_at
SessionColumns(row) ==
    [call_id |-> row.call_id, room_id |-> row.room_id, call_type |-> row.call_type,
     initiator_id |-> row.initiator_id, status |-> row.status,
     recent |-> row.call_id \notin aged]

\* Faulty variant: the query without its JOIN on call_participants.
ActiveCalls_NoJoin(userId) ==
    {SessionColumns(call_sessions[i]) :
        i \in {j \in DOMAIN call_sessions :
                 /\ call_sessions[j].status = "ringing"
                 /\ call_sessions[j].initiator_id # userId
                 /\ call_sessions[j].call_id \notin aged}}
\* The rows of the query; their order (created_at DESC) is not modelled.
ActiveCalls(userId) ==
    {SessionColumns(call_sessions[i]) :
        i \in {j \in DOMAIN call_sessions :
                 /\ call_sessions[j].status = "ringing"
                 /\ call_sessions[j].initiator_id # userId
                 /\ \E k \in ParticipantRows(call_participants,
                                              call_sessions[j].call_id, userId) :
                       call_participants[k].status = "invited"
                 /\ call_sessions[j].call_id \notin aged}}

ActiveQuery(r, userId) ==
    /\ Free(r)
    /\ reqCount < MaxRequests
    /\ reqCount' = reqCount + 1
    /\ LET rq == Received(r, "active", NoCall, userId, "")
       IN req' = [req EXCEPT ![r] =
            IF userId = NoUser
            THEN Done(rq, Error(400, "userId required"))
            ELSE Done([rq EXCEPT !.calls = ActiveCalls(userId)],
                      [NoRes EXCEPT !.code = 200, !.iceServers = ICE_SERVERS])]
    /\ last' = Step("active", "", NoCall, userId, "", {}, NoEmits)
    /\ UNCHANGED << store, rowLock, callSeq, aged, registry, sock, handler, relays,
                    sockCount, received >>

\* ------------------------------------------------- GET /:callId/status
\* SELECT matrix_user_id, status, audio_enabled, video_enabled, joined_at, left_at
ParticipantColumns(row) ==
    [matrix_user_id |-> row.matrix_user_id, status |-> row.status,
     audio_enabled |-> row.audio_enabled, video_enabled |-> row.video_enabled,
     joined_at |-> row.joined_at, left_at |-> row.left_at]

\* The first query, outside any transaction: SELECT * FROM call_sessions.
StatusSelect(r, c) ==
    /\ Free(r)
    /\ reqCount < MaxRequests
    /\ reqCount' = reqCount + 1
    /\ LET rq == Received(r, "status", c, NoUser, "")
       IN req' = [req EXCEPT ![r] =
            IF ~SessionExists(c)
            THEN Done(rq, Error(404, "Call not found"))
            ELSE [rq EXCEPT !.pc = "participants", !.session = << SessionRow(c) >>]]
    /\ last' = Step("StatusSelect", "", c, NoUser, StatusOf(c), {}, NoEmits)
    /\ UNCHANGED << store, rowLock, callSeq, aged, registry, sock, handler, relays,
                    sockCount, received >>

\* Faulty variant: only the rows still in the call are selected.
ParticipantsOf_JoinedOnly(tbl, c) ==
    {ParticipantColumns(tbl[i]) :
        i \in {j \in CallParticipantRows(tbl, c) : tbl[j].status = "joined"}}
\* ... FROM call_participants WHERE call_id = $1
ParticipantsOf(tbl, c) == {ParticipantColumns(tbl[i]) : i \in CallParticipantRows(tbl, c)}

\* The second query and the response { session, participants }.
StatusReply(r) ==
    /\ req[r].pc = "participants"
    /\ req[r].op = "status"
    /\ LET c == req[r].callId
           rows == ParticipantsOf(call_participants, c)
       IN /\ req' = [req EXCEPT ![r] =
                 Done([@ EXCEPT !.participants = rows],
                      [code |-> 200, error |-> "", callId |-> c,
                       status |-> req[r].session[1].status, iceServers |-> << >>])]
          /\ last' = Step("StatusReply", "", c, NoUser, req[r].session[1].status, {}, NoEmits)
    /\ UNCHANGED << store, rowLock, reqCount, callSeq, aged, registry, sock, handler, relays,
                    sockCount, received >>

\* ------------------- POST /:callId/toggle-audio, POST /:callId/toggle-video
\* A JSON value of the request body, with its JavaScript type.
Boolean(v) == [type |-> "boolean", value |-> v]
Undefined == [type |-> "undefined", value |-> FALSE]

\* Faulty variant: the column is inverted, whatever value was sent.
SetMedia_Invert(tbl, c, u, kind, enabled) ==
    [i \in DOMAIN tbl |->
        IF tbl[i].call_id = c /\ tbl[i].matrix_user_id = u
        THEN IF kind = "audio"
             THEN [tbl[i] EXCEPT !.audio_enabled = ~@]
             ELSE [tbl[i] EXCEPT !.video_enabled = ~@]
        ELSE tbl[i]]
\* UPDATE call_participants SET audio_enabled = $1 (video_enabled = $1)
\* WHERE call_id = $2 AND matrix_user_id = $3
SetMedia(tbl, c, u, kind, enabled) ==
    [i \in DOMAIN tbl |->
        IF tbl[i].call_id = c /\ tbl[i].matrix_user_id = u
        THEN IF kind = "audio"
             THEN [tbl[i] EXCEPT !.audio_enabled = enabled]
             ELSE [tbl[i] EXCEPT !.video_enabled = enabled]
        ELSE tbl[i]]

ToggledType(kind) == IF kind = "audio" THEN "audio_toggled" ELSE "video_toggled"

\* The validation and the first statement, which commits by itself.
ToggleUpdate(r, c, kind, userId, enabled) ==
    /\ Free(r)
    /\ reqCount < MaxRequests
    /\ reqCount' = reqCount + 1
    /\ LET rq == [Received(r, "toggle", c, userId, "") EXCEPT !.kind = kind,
                                                            !.enabled = enabled]
           valid == userId # NoUser /\ enabled.type = "boolean"
       IN /\ req' = [req EXCEPT ![r] =
                 IF ~valid
                 THEN Done(rq, Error(400, "userId and enabled (boolean) required"))
                 ELSE [rq EXCEPT !.pc = "event"]]
          /\ call_participants' =
                 IF valid THEN SetMedia(call_participants, c, userId, kind, enabled.value)
                 ELSE call_participants
    /\ last' = Step("ToggleUpdate", "", c, userId, "", {}, NoEmits)
    /\ UNCHANGED << call_sessions, call_events, rowLock, callSeq, aged, registry, sock,
                    handler, relays, sockCount, received >>

\* The second statement and the response { success, audioEnabled | videoEnabled },
\* whose value is the request's; an INSERT the Store refuses is caught: 500.
ToggleInsert(r) ==
    /\ req[r].pc = "event"
    /\ req[r].op = "toggle"
    /\ LET c == req[r].callId
       IN /\ call_events' = InsertEvent(call_events, call_sessions, c, req[r].userId,
                                        ToggledType(req[r].kind))
          /\ req' = [req EXCEPT ![r] =
                 IF SessionExists(c)
                 THEN Done(@, [NoRes EXCEPT !.code = 200])
                 ELSE Done(@, Error(500, "Failed to toggle " \o req[r].kind))]
          /\ last' = Step("ToggleInsert", "", c, req[r].userId, "", {}, NoEmits)
    /\ UNCHANGED << call_sessions, call_participants, rowLock, reqCount, callSeq, aged,
                    registry, sock, handler, relays, sockCount, received >>

\* ------------------------------------------------------------ connections
NewSocket == [state |-> "new", userId |-> NoUser, callId |-> NoCall, rooms |-> {}]
NoHandler ==
    [pc |-> "idle", userId |-> NoUser, arr |-> << >>, idx |-> 0, shared |-> FALSE,
     status |-> ""]
\* The handlers of userId whose array is the one the Map holds lose that tie when
\* the Map's entry is replaced or deleted.
Detach(h, userId) ==
    [s \in Sockets |->
        IF h[s].userId = userId THEN [h[s] EXCEPT !.shared = FALSE] ELSE h[s]]

\* io.on('connection'): a socket id is used by one connection only.
Connect(s) ==
    /\ sock[s].state = "new"
    /\ sock' = [sock EXCEPT ![s].state = "connected"]
    /\ last' = Quiet
    /\ UNCHANGED << store, rowLock, req, reqCount, callSeq, aged, registry, handler, relays,
                    sockCount, received >>

\* socket.on('register-user') up to its first await.
RegisterUser(s, userId) ==
    /\ sock[s].state = "connected"
    /\ handler[s].pc = "idle"
    /\ sock' = [sock EXCEPT ![s].userId = userId]
    /\ userSockets' = Put(userSockets, userId, Get(userSockets, userId) \cup {s})
    /\ LET pending == PendingOf(pendingCallNotifications, userId)
       IN handler' = [handler EXCEPT ![s] =
            IF Has(pendingCallNotifications, userId) /\ Len(pending) > 0
            THEN [pc |-> "query", userId |-> userId, arr |-> pending, idx |-> 1,
                  shared |-> TRUE, status |-> ""]
            ELSE NoHandler]
    /\ last' = Quiet
    /\ UNCHANGED << store, rowLock, req, reqCount, callSeq, aged, callParticipants,
                    pendingCallNotifications, timers, relays, sockCount, received >>

\* The Store runs SELECT status FROM call_sessions WHERE call_id = callEvent.callId.
RegisterQuery(s) ==
    /\ handler[s].pc = "query"
    /\ LET c == handler[s].arr[handler[s].idx].callId
       IN /\ handler' = [handler EXCEPT ![s].pc = "reply", ![s].status = StatusOf(c)]
          /\ last' = Quiet
    /\ UNCHANGED << store, rowLock, req, reqCount, callSeq, aged, registry, sock, relays,
                    sockCount, received >>

\* Faulty variant: any session that exists is delivered.
StillRinging_AnyStatus(status) == status # "none"
\* result.rows.length > 0 && result.rows[0].status === 'ringing'
StillRinging(status) == status # "none" /\ status = "ringing"

\* The handler resumes with the query's result; after the last entry of the
\* array it deletes the user's queue.
RegisterReply(s) ==
    /\ handler[s].pc = "reply"
    /\ LET h == handler[s]
           callEvent == h.arr[h.idx]
           emits == IF StillRinging(h.status)
                    THEN Emit({s}, "incoming-call", callEvent.callId, callEvent.callerId)
                    ELSE NoEmits
       IN /\ received' = Deliver(emits)
          /\ last' = Step("register-user reply", s, callEvent.callId, h.userId, h.status,
                          {}, emits)
          /\ IF h.idx < Len(h.arr)
             THEN /\ handler' = [handler EXCEPT ![s].pc = "query", ![s].idx = h.idx + 1]
                  /\ UNCHANGED pendingCallNotifications
             ELSE /\ pendingCallNotifications' = Delete(pendingCallNotifications, h.userId)
                  /\ handler' = [Detach(handler, h.userId) EXCEPT ![s] = NoHandler]
    /\ UNCHANGED << store, rowLock, req, reqCount, callSeq, aged, userSockets, callParticipants,
                    timers, sock, relays, sockCount >>

\* Faulty variant: the closure drops the whole queue of the user.
Unexpired_None(pending, callId) == << >>
\* Faulty variant: the closure writes the array back as it found it.
Unexpired_KeepAll(pending, callId) == pending
\* pending.filter(c => c.callId !== callId)
Unexpired(pending, callId) == SelectSeq(pending, LAMBDA c : c.callId # callId)

\* The setTimeout(..., 90000) closure armed for (recipientId, callId).
ExpireTimer(t) ==
    /\ t \in timers
    /\ timers' = timers \ {t}
    /\ IF Has(pendingCallNotifications, t.recipientId)
       THEN LET filtered == Unexpired(pendingCallNotifications[t.recipientId], t.callId)
            IN /\ pendingCallNotifications' =
                      IF Len(filtered) = 0
                      THEN Delete(pendingCallNotifications, t.recipientId)
                      ELSE Put(pendingCallNotifications, t.recipientId, filtered)
               /\ handler' = Detach(handler, t.recipientId)
       ELSE UNCHANGED << pendingCallNotifications, handler >>
    /\ last' = Quiet
    /\ UNCHANGED << store, rowLock, req, reqCount, callSeq, aged, userSockets, callParticipants,
                    sock, relays, sockCount, received >>

SetLeftIfJoined(tbl, c, u) ==
    [i \in DOMAIN tbl |->
        IF tbl[i].call_id = c /\ tbl[i].matrix_user_id = u /\ tbl[i].status = "joined"
        THEN [tbl[i] EXCEPT !.status = "left", !.left_at = Now]
        ELSE tbl[i]]

\* Faulty variant: the key stays, with an empty set.
Shrunk_KeepsKey(map, k, rest) == Put(map, k, rest)

\* if (sockets.size === 0) userSockets.delete(socket.userId)
Shrunk(map, k, rest) ==
    IF Cardinality(rest) = 0 THEN Delete(map, k) ELSE Put(map, k, rest)

\* socket.on('disconnect'); the socket has left its rooms when it runs.
Disconnect(s) ==
    /\ sock[s].state = "connected"
    /\ LET userId == sock[s].userId
           callId == sock[s].callId
           sockets == Get(userSockets, userId) \ {s}
           inCall == callId # NoCall /\ userId # NoUser
       IN /\ userSockets' =
                 IF userId # NoUser /\ Has(userSockets, userId)
                 THEN Shrunk(userSockets, userId, sockets)
                 ELSE userSockets
          /\ call_participants' =
                 IF inCall THEN SetLeftIfJoined(call_participants, callId, userId)
                 ELSE call_participants
          /\ last' = Step("disconnect", s, callId, userId, "", {},
                          IF inCall
                          THEN Emit(RoomSockets(callId) \ {s}, "user-left", callId, userId)
                          ELSE NoEmits)
    /\ sock' = [sock EXCEPT ![s].state = "closed", ![s].rooms = {}]
    /\ UNCHANGED << call_sessions, call_events, rowLock, req, reqCount, callSeq, aged,
                    callParticipants, pendingCallNotifications, timers, handler, relays,
                    sockCount, received >>

\* Faulty variant: joining the room also rewrites the participant row.
JoinCall_WritesRow(s, callId, userId) ==
    /\ sock[s].state = "connected"
    /\ sockCount < MaxSockEvents
    /\ sockCount' = sockCount + 1
    /\ sock' = [sock EXCEPT ![s].rooms = @ \cup {callId}, ![s].callId = callId,
                            ![s].userId = userId]
    /\ callParticipants' = Put(callParticipants, callId, Get(callParticipants, callId) \cup {userId})
    /\ call_events' = InsertEvent(call_events, call_sessions, callId, userId, "socket_connected")
    /\ call_participants' = SetLeftIfJoined(call_participants, callId, userId)
    /\ last' = Step("join-call", s, callId, userId, "", {},
                    Emit(RoomSockets(callId) \ {s}, "user-joined", callId, userId))
    /\ UNCHANGED << call_sessions, rowLock, req, reqCount, callSeq, aged,
                    userSockets, pendingCallNotifications, timers, handler, relays, received >>

\* socket.on('join-call')
JoinCall(s, callId, userId) ==
    /\ sock[s].state = "connected"
    /\ sockCount < MaxSockEvents
    /\ sockCount' = sockCount + 1
    /\ sock' = [sock EXCEPT ![s].rooms = @ \cup {callId}, ![s].callId = callId,
                            ![s].userId = userId]
    /\ callParticipants' = Put(callParticipants, callId, Get(callParticipants, callId) \cup {userId})
    /\ call_events' = InsertEvent(call_events, call_sessions, callId, userId, "socket_connected")
    /\ last' = Step("join-call", s, callId, userId, "", {},
                    Emit(RoomSockets(callId) \ {s}, "user-joined", callId, userId))
    /\ UNCHANGED << call_sessions, call_participants, rowLock, req, reqCount, callSeq, aged,
                    userSockets, pendingCallNotifications, timers, handler, relays, received >>

\* UPDATE call_participants SET status = 'left', left_at = NOW() WHERE (call, user)
SetLeft(tbl, c, u) ==
    [i \in DOMAIN tbl |->
        IF tbl[i].call_id = c /\ tbl[i].matrix_user_id = u
        THEN [tbl[i] EXCEPT !.status = "left", !.left_at = Now]
        ELSE tbl[i]]

\* socket.on('leave-call'); socket.callId stays as join-call set it.
LeaveCall(s, callId) ==
    /\ sock[s].state = "connected"
    /\ sock[s].userId # NoUser
    /\ sockCount < MaxSockEvents
    /\ sockCount' = sockCount + 1
    /\ LET userId == sock[s].userId
           participants == Get(callParticipants, callId) \ {userId}
       IN /\ call_participants' = SetLeft(call_participants, callId, userId)
          /\ call_events' = InsertEvent(call_events, call_sessions, callId, userId, "user_left")
          /\ callParticipants' =
                 IF ~Has(callParticipants, callId) THEN callParticipants
                 ELSE IF participants = {} THEN Delete(callParticipants, callId)
                 ELSE Put(callParticipants, callId, participants)
          /\ last' = Step("leave-call", s, callId, userId, "", {},
                          Emit(RoomSockets(callId) \ {s}, "user-left", callId, userId))
    /\ sock' = [sock EXCEPT ![s].rooms = @ \ {callId}]
    /\ UNCHANGED << call_sessions, rowLock, req, reqCount, callSeq, aged, userSockets,
                    pendingCallNotifications, timers, handler, relays, received >>

\* socket.on('toggle-audio') and socket.on('toggle-video'): the UPDATE for
\* socket.userId, then the emit to the others in the room; no row in call_events.
ToggleSocket(s, callId, kind, enabled) ==
    /\ sock[s].state = "connected"
    /\ sockCount < MaxSockEvents
    /\ sockCount' = sockCount + 1
    /\ call_participants' = SetMedia(call_participants, callId, sock[s].userId, kind, enabled)
    /\ last' = Step("toggle-" \o kind, s, callId, sock[s].userId, "", {},
                    Emit(RoomSockets(callId) \ {s}, kind \o "-toggled", callId,
                         sock[s].userId))
    /\ UNCHANGED << call_sessions, call_events, rowLock, req, reqCount, callSeq, aged,
                    registry, sock, handler, relays, received >>

\* ------------------------------------------------------------------ relay
OneOf(S) == IF S = {} THEN {} ELSE {CHOOSE s \in S : TRUE}
\* Faulty variant: a user is reached on one socket only.
sendToTarget_OneSocket(eventName, callId, senderId, targetUserId) ==
    IF targetUserId # "" /\ targetUserId # "all"
    THEN Emit(OneOf(Get(userSockets, targetUserId)), eventName, callId, senderId)
    ELSE LET participants == {p \in Get(callParticipants, callId) : p # senderId}
         IN SumBags(participants, [p \in participants |->
                       Emit(OneOf(Get(userSockets, p)), eventName, callId, senderId)])
sendToTarget(eventName, callId, senderId, targetUserId) ==
    IF targetUserId # "" /\ targetUserId # "all"
    THEN Emit(Get(userSockets, targetUserId), eventName, callId, senderId)
    ELSE LET participants == {p \in Get(callParticipants, callId) : p # senderId}
         IN SumBags(participants, [p \in participants |->
                       Emit(Get(userSockets, p), eventName, callId, senderId)])

SentType(eventName) == IF eventName = "webrtc-offer" THEN "offer_sent" ELSE "answer_sent"

\* socket.on('webrtc-offer') and socket.on('webrtc-answer') up to their await:
\* the INSERT into call_events is issued and the handler is suspended.
WebrtcSignal(s, eventName, callId, targetUserId) ==
    /\ sock[s].state = "connected"
    /\ sockCount < MaxSockEvents
    /\ sockCount' = sockCount + 1
    /\ LET x == [sock |-> s, ev |-> eventName, callId |-> callId, targetUserId |-> targetUserId]
       IN /\ x \notin relays
          /\ relays' = relays \cup {x}
    /\ call_events' = InsertEvent(call_events, call_sessions, callId, sock[s].userId,
                                  SentType(eventName))
    /\ last' = Relayed(eventName, s, callId, sock[s].userId, targetUserId, NoEmits)
    /\ UNCHANGED << call_sessions, call_participants, rowLock, req, reqCount, callSeq, aged,
                    registry, sock, handler, received >>

\* ... and after it: sendToTarget with the socket.userId of that moment.
WebrtcRelay(x) ==
    /\ x \in relays
    /\ relays' = relays \ {x}
    /\ last' = Relayed("sendToTarget", x.sock, x.callId, sock[x.sock].userId, x.targetUserId,
                       sendToTarget(x.ev, x.callId, sock[x.sock].userId, x.targetUserId))
    /\ UNCHANGED << store, rowLock, req, reqCount, callSeq, aged, registry, sock, handler,
                    sockCount, received >>

\* socket.on('ice-candidate'): no await, sendToTarget at once.
IceCandidate(s, callId, targetUserId) ==
    /\ sock[s].state = "connected"
    /\ last' = Relayed("sendToTarget", s, callId, sock[s].userId, targetUserId,
                       sendToTarget("ice-candidate", callId, sock[s].userId, targetUserId))
    /\ UNCHANGED << store, rowLock, req, reqCount, callSeq, aged, registry, sock, handler,
                    relays, sockCount, received >>

\* ------------------------------------------------------------------- Init
Init ==
    /\ call_sessions = << >>
    /\ call_participants = << >>
    /\ call_events = EmptyBag
    /\ rowLock = [c \in CallRange |-> 0]
    /\ req = [r \in Slots |-> Idle]
    /\ reqCount = 0
    /\ callSeq = 0
    /\ aged = {}
    /\ userSockets = EmptyMap
    /\ callParticipants = EmptyMap
    /\ pendingCallNotifications = EmptyMap
    /\ timers = {}
    /\ sock = [s \in Sockets |-> NewSocket]
    /\ handler = [s \in Sockets |-> NoHandler]
    /\ relays = {}
    /\ sockCount = 0
    /\ received = [s \in Sockets |-> [c \in CallRange |-> 0]]
    /\ last = Quiet

\* ------------------------------------------------------------------- Next
RoomMembers == {"A", "B", "C"}

\* A request is handled in the first slot that is free.
FreeSlot(slots) ==
    IF \E r \in slots : Free(r)
    THEN {CHOOSE r \in slots : Free(r) /\ \A q \in slots : Free(q) => r <= q}
    ELSE {}

Initiation(slots, callers, callTypes, members) ==
    \/ \E r \in FreeSlot(slots), callType \in callTypes, userId \in callers :
           InitiateBegin(r, "R", callType, "tok", userId)
    \/ \E r \in slots : InitiateCommit(r, "")
    \/ \E r \in slots, roomMembers \in members : NotifyIncomingCall(r, roomMembers)

\* A caller who places one call after another.
Redial(slots, callers, members) ==
    \/ \E r \in FreeSlot(slots), userId \in callers :
           InitiateWithin(MaxCalls + 1, r, "R", "video", "tok", userId)
    \/ \E r \in slots : InitiateCommit(r, "")
    \/ \E r \in slots, roomMembers \in members : NotifyIncomingCall(r, roomMembers)

\* Requests to POST /initiate with a field missing or a call type unknown.
InvalidInitiation(slots) ==
    \E r \in FreeSlot(slots), roomId \in {"R", ""}, callType \in {"video", "screen", ""},
       accessToken \in {"tok", ""}, userId \in {"A", NoUser} :
        /\ roomId = "" \/ callType # "video" \/ accessToken = "" \/ userId = NoUser
        /\ InitiateBegin(r, roomId, callType, accessToken, userId)

Answers(slots, users) ==
    \/ \E r \in FreeSlot(slots), c \in CallIds, userId \in users :
           AnswerSelect(r, c, userId, "tok")
    \/ \E r \in slots : AnswerUpdate(r)
    \/ \E r \in slots : AnswerCommit(r)
    \/ \E r \in slots : AnswerNotify(r)

Rejects(slots, users) ==
    \/ \E r \in FreeSlot(slots), c \in CallIds, userId \in users :
           RejectSelect(r, c, userId, "tok")
    \/ \E r \in slots : RejectUpdate(r)
    \/ \E r \in slots : RejectCommit(r)
    \/ \E r \in slots : RejectNotify(r)

Ends(slots, users) ==
    \/ \E r \in FreeSlot(slots), c \in CallIds, userId \in users :
           EndSelect(r, c, userId, "tok")
    \/ \E r \in slots : EndUpdate(r)
    \/ \E r \in slots : EndCommit(r)
    \/ \E r \in slots : EndNotify(r)

Transitions(slots, users) ==
    \/ Answers(slots, users)
    \/ Rejects(slots, users)
    \/ Ends(slots, users)

\* owner: the user each client connection registers as.
Presence(owner) ==
    \/ \E s \in DOMAIN owner : Connect(s)
    \/ \E s \in DOMAIN owner : RegisterUser(s, owner[s])

Departures(sockets) == \E s \in sockets : Disconnect(s)

PendingDelivery(owner) ==
    \/ \E s \in DOMAIN owner : RegisterQuery(s)
    \/ \E s \in DOMAIN owner : RegisterReply(s)

Timeouts == \E t \in timers : ExpireTimer(t)

Failures(slots) == \E r \in slots : StoreFailure(r)

\* The homeserver refuses the m.call event (and, for initiate, the profile request).
UpstreamFailures(slots) ==
    \/ \E r \in slots : InitiateWrites(r, "", FALSE)
    \/ \E r \in slots : AnswerWrites(r, FALSE)
    \/ \E r \in slots : RejectWrites(r, FALSE)
    \/ \E r \in slots : EndWrites(r, FALSE)

Membership(owner, calls) ==
    \/ \E s \in DOMAIN owner, c \in calls : JoinCall(s, c, owner[s])
    \/ \E s \in DOMAIN owner, c \in calls : LeaveCall(s, c)

Queries(slots, calls) ==
    \/ \E r \in FreeSlot(slots), c \in calls : StatusSelect(r, c)
    \/ \E r \in slots : StatusReply(r)

Toggles(slots, calls, users, values) ==
    \/ \E r \in FreeSlot(slots), c \in calls, kind \in {"audio", "video"}, u \in users,
          enabled \in values : ToggleUpdate(r, c, kind, u, enabled)
    \/ \E r \in slots : ToggleInsert(r)

SocketToggles(sockets, calls) ==
    \E s \in sockets, c \in calls, kind \in {"audio", "video"}, enabled \in BOOLEAN :
        ToggleSocket(s, c, kind, enabled)

Listing(slots, users) == \E r \in FreeSlot(slots), u \in users : ActiveQuery(r, u)

Ageing == \E c \in CallIds : Elapse(c)

Signaling(owner, senders, targets, calls) ==
    \/ \E s \in DOMAIN owner, c \in calls : JoinCall(s, c, owner[s])
    \/ \E s \in senders, ev \in {"webrtc-offer", "webrtc-answer"}, c \in calls,
          targetUserId \in targets : WebrtcSignal(s, ev, c, targetUserId)
    \/ \E x \in relays : WebrtcRelay(x)
    \/ \E s \in senders, c \in calls, targetUserId \in targets :
           IceCandidate(s, c, targetUserId)

\* Concurrent lifecycle requests of one caller A and one callee B; A's device s1.
Next ==
    \/ Initiation(Slots, {"A"}, {"video"}, {{"A", "B"}})
    \/ Transitions(Slots, {"A", "B"})
    \/ Presence([s \in {"s1"} |-> "A"])
    \/ Departures({"s1"})
    \/ Timeouts

Spec == Init /\ [][Next]_vars

\* One request at a time; the callee B owns the devices s1 and s2.
TwoDevices == [s \in {"s1", "s2"} |-> "B"]
NextNotify ==
    \/ Initiation({1}, {"A"}, {"video"}, {{"A", "B"}, {}})
    \/ Transitions({1}, {"B"})
    \/ Presence(TwoDevices)
    \/ Departures({"s1"})
    \/ PendingDelivery(TwoDevices)
    \/ Timeouts

SpecNotify == Init /\ [][NextNotify]_vars

\* The relay between B's devices s1, s2 and A's device s3, which sends.
ThreeDevices == [s \in Sockets |-> IF s = "s3" THEN "A" ELSE "B"]
NextRelay ==
    \/ Initiation({1}, {"A"}, {"video"}, {{"A"}})
    \/ Presence(ThreeDevices)
    \/ Departures({"s2"})
    \/ Signaling([s \in {"s1", "s3"} |-> ThreeDevices[s]], {"s3"}, {"B", "all"}, {1})

SpecRelay == Init /\ [][NextRelay]_vars

\* The fan-out of one call of A, on device s3, to B's devices and to C, who has none.
NextFanout ==
    \/ Initiation({1}, {"A"}, {"voice", "video"}, {RoomMembers})
    \/ Presence(ThreeDevices)
    \/ Departures(Sockets)
    \/ PendingDelivery(ThreeDevices)
    \/ Timeouts

SpecFanout == Init /\ [][NextFanout]_vars

\* One call of B, who owns the devices s1 and s2, answered and ended by A: the
\* requests one at a time, between the joins, leaves and disconnects of the devices.
NextSession ==
    \/ Initiation({1}, {"B"}, {"video"}, {{"A", "B"}})
    \/ Answers({1}, {"A"})
    \/ Ends({1}, {"A"})
    \/ Queries({1}, {1})
    \/ Presence(TwoDevices)
    \/ Departures({"s1"})
    \/ Timeouts
    \/ Membership([s \in {"s1"} |-> "B"], {1})

SpecSession == Init /\ [][NextSession]_vars

\* The requests of one call of A, who owns s1 and s2, one at a time, with Store
\* statements that fail.
InitiatorDevices == [s \in {"s1", "s2"} |-> "A"]
NextFaults ==
    \/ Initiation({1}, {"A"}, {"video"}, {{"A", "B"}, {}})
    \/ Transitions({1}, {"B"})
    \/ Failures({1})
    \/ Presence(InitiatorDevices)
    \/ Departures({"s1"})
    \/ Timeouts

SpecFaults == Init /\ [][NextFaults]_vars

\* The same requests with a Store that works and a homeserver that may refuse
\* the m.call event, the profile request and the membership request.
NextUpstream ==
    \/ Initiation({1}, {"A"}, {"video"}, {{"A", "B"}, {}})
    \/ Transitions({1}, {"B"})
    \/ UpstreamFailures({1})
    \/ Presence(InitiatorDevices)
    \/ Departures({"s1"})
    \/ Timeouts

SpecUpstream == Init /\ [][NextUpstream]_vars

\* The HTTP interface used by A and B, one request at a time, well-formed or not.
NextApi ==
    \/ Initiation({1}, {"A"}, {"voice", "video"}, {{"A", "B"}})
    \/ InvalidInitiation({1})
    \/ Transitions({1}, {"A", "B"})
    \/ Queries({1}, CallIds)
    \/ Presence([s \in {"s1"} |-> "B"])

SpecApi == Init /\ [][NextApi]_vars

\* One call of A to B, who is offline when it rings; A's device s1 and B's device
\* s2 register, join, leave and disconnect.
Handsets == [s \in {"s1", "s2"} |-> IF s = "s1" THEN "A" ELSE "B"]
NextRealtime ==
    \/ Initiation({1}, {"A"}, {"video"}, {{"A", "B"}})
    \/ Presence(Handsets)
    \/ PendingDelivery(Handsets)
    \/ Departures({"s1", "s2"})
    \/ Timeouts
    \/ Membership(Handsets, {1})

\* The requests of one call of A, one at a time, with a Store connection that may
\* fail for a statement and for the ROLLBACK after it.
NextPool ==
    \/ Initiation({1}, {"A"}, {"video"}, {{"A", "B"}})
    \/ Transitions({1}, {"A", "B"})
    \/ Failures({1})
    \/ \E r \in {1} : RollbackFailure(r)
    \/ Presence([s \in {"s1"} |-> "A"])

SpecPool == Init /\ [][NextPool]_vars

SpecRealtime == Init /\ [][NextRealtime]_vars

\* A calls twice, in a room with B or with B and C; B's device s1 registers and
\* disconnects while the calls ring and their queue entries expire; C is offline.
NextRequeue ==
    \/ Redial({1}, {"A"}, {{"A", "B"}, RoomMembers})
    \/ Presence([s \in {"s1"} |-> "B"])
    \/ PendingDelivery([s \in {"s1"} |-> "B"])
    \/ Departures({"s1"})
    \/ Timeouts

SpecRequeue == Init /\ [][NextRequeue]_vars

\* The same call and devices; s1 also signals to B and toggles its microphone.
NextFrame ==
    \/ Initiation({1}, {"A"}, {"video"}, {{"A", "B"}})
    \/ Presence(Handsets)
    \/ Departures({"s1"})
    \/ Membership([s \in {"s1"} |-> "A"], {1})
    \/ Signaling(Handsets, {"s1"}, {"B"}, {1})
    \/ \E enabled \in BOOLEAN : ToggleSocket("s1", 1, "audio", enabled)

SpecFrame == Init /\ [][NextFrame]_vars

\* B polls for incoming calls while A's call rings, is answered, rejected or ages.
NextActive ==
    \/ Initiation({1}, {"A"}, {"video"}, {{"A", "B"}})
    \/ Answers({1}, {"B"})
    \/ Rejects({1}, {"B"})
    \/ Listing({1}, {"A", "B", NoUser})
    \/ Ageing
    \/ Presence([s \in {"s1"} |-> "B"])
    \/ Timeouts

SpecActive == Init /\ [][NextActive]_vars

\* A's call, A muting and unmuting by request and from the device s1, next to
\* B's device s2 in the room of the call.
MediaDevices == [s \in {"s1", "s2"} |-> IF s = "s1" THEN "A" ELSE "B"]
NextMedia ==
    \/ Initiation({1}, {"A"}, {"video"}, {{"A", "B"}})
    \/ Toggles({1}, CallIds, {"A", NoUser}, {Boolean(FALSE), Undefined})
    \/ SocketToggles({"s1"}, {1})
    \/ \E s \in DOMAIN MediaDevices : Connect(s)
    \/ \E s \in DOMAIN MediaDevices : JoinCall(s, 1, MediaDevices[s])

SpecMedia == Init /\ [][NextMedia]_vars

\* Two connections that register and join under either of two user ids.
NextIdentity ==
    \/ \E s \in {"s1", "s2"} : Connect(s)
    \/ \E s \in {"s1", "s2"}, u \in {"A", "B"} : RegisterUser(s, u)
    \/ \E s \in {"s1", "s2"}, u \in {"A", "B"} : JoinCall(s, 1, u)
    \/ \E s \in {"s1", "s2"} : LeaveCall(s, 1)
    \/ Departures({"s1", "s2"})

SpecIdentity == Init /\ [][NextIdentity]_vars

\* A's calls to B, who is offline or connects on s1 or s2, and to C, who stays
\* offline, with timers that fire: Node runs a timer that is due.
NextExpiry ==
    \/ Initiation({1}, {"A"}, {"video"}, {{"A", "B"}, RoomMembers})
    \/ Presence(TwoDevices)
    \/ PendingDelivery(TwoDevices)
    \/ Departures({"s1"})
    \/ Timeouts

SpecExpiry ==
    /\ Init /\ [][NextExpiry]_vars
    /\ \A u \in Users, c \in CallIds :
          WF_vars(ExpireTimer([recipientId |-> u, callId |-> c]))

\* The relay between two connections that register and join under either of
\* two user ids.
NextShared ==
    \/ \E s \in {"s1", "s2"} : Connect(s)
    \/ \E s \in {"s1", "s2"}, u \in {"A", "B"} : RegisterUser(s, u)
    \/ \E s \in {"s1", "s2"}, u \in {"A", "B"} : JoinCall(s, 1, u)
    \/ \E s \in {"s1"}, ev \in {"webrtc-offer", "webrtc-answer"},
          targetUserId \in {"B", "all", ""} : WebrtcSignal(s, ev, 1, targetUserId)
    \/ \E x \in relays : WebrtcRelay(x)
    \/ \E s \in {"s1"}, targetUserId \in {"B", "all", ""} : IceCandidate(s, 1, targetUserId)
    \/ Departures({"s2"})

SpecShared == Init /\ [][NextShared]_vars

\* ================================================================= claims
NotRinging == "Call is not in ringing state"
AnswerDone(r) == req[r].op = "answer" /\ req[r].pc = "done"

\* C1: of two answer requests on the same ringing session, under every
\* interleaving of their Store statements, exactly one returns success and the
\* other fails with InvalidStateError (so started_at is written once).
C1_ExactlyOneAnswerSucceeds ==
    \A r, q \in Slots :
        (r # q /\ AnswerDone(r) /\ AnswerDone(q) /\ req[r].callId = req[q].callId
            /\ req[r].res.code = 200 /\ req[q].res.code # 404)
        => (req[q].res.code = 400 /\ req[q].res.error = NotRinging)

\* C2: whenever an incoming-call notification of a call has fired, live or
\* queued, the session row of the call is committed: a read of the Store by any
\* connection finds it.
QueuedFor(u, c) ==
    LET pending == PendingOf(pendingCallNotifications, u)
    IN Cardinality({i \in DOMAIN pending : pending[i].callId = c})
Notified(c) ==
    \/ \E u \in Users : QueuedFor(u, c) > 0
    \/ \E t \in timers : t.callId = c
    \/ \E s \in Sockets : received[s][c] > 0
    \/ \E s \in Sockets :
          handler[s].pc # "idle" /\ \E i \in DOMAIN handler[s].arr : handler[s].arr[i].callId = c
    \/ \E e \in BagToSet(last.emits) : e.ev = "incoming-call" /\ e.callId = c
    \/ last.op = "notifyIncomingCall" /\ last.callId = c
C2_CommittedBeforeNotified ==
    \A c \in CallIds :
        Notified(c) =>
            /\ SessionExists(c)
            /\ ~ \E r \in Slots : req[r].op = "initiate" /\ req[r].pc = "commit" /\ req[r].callId = c
C2_Witness ==
    \E c \in CallIds :
        /\ last.op = "notifyIncomingCall" /\ last.callId = c
        /\ SessionExists(c)
        /\ \E s \in Sockets : received[s][c] > 0
        /\ \E u \in Users : QueuedFor(u, c) > 0

\* C3: an answer whose SELECT finds the session in a status other than ringing
\* fails with "Call is not in ringing state", changes no session, participant
\* or event row, takes no lock and emits nothing.
C3_AnswerNotRingingFails ==
    [][(last'.op = "AnswerSelect" /\ reqCount' = reqCount + 1
          /\ SessionExists(last'.callId) /\ StatusOf(last'.callId) # "ringing")
       => /\ \E r \in Slots :
                /\ req'[r].op = "answer" /\ req'[r].pc = "done"
                /\ req'[r].res.code = 400 /\ req'[r].res.error = NotRinging
                /\ \A q \in Slots \ {r} : req'[q] = req[q]
          /\ store' = store
          /\ rowLock' = rowLock
          /\ last'.emits = NoEmits]_vars
C3_Witness ==
    /\ last.op = "AnswerSelect"
    /\ StatusOf(last.callId) \in {"active", "rejected", "ended"}
    /\ Has(userSockets, SessionRow(last.callId).initiator_id)
    /\ \E r \in Slots : AnswerDone(r) /\ req[r].res.error = NotRinging

\* C4: once a session is ended, rejected or missed no operation changes its status.
C4_TerminalStatusImmutable ==
    [][\A c \in CallIds :
          StatusOf(c) \in {"ended", "rejected", "missed"} => StatusOf(c)' = StatusOf(c)]_vars

\* C5: every call id initiate has returned has exactly one session row, and no
\* (call, user) pair has more than one participant row, also after repeated and
\* concurrent answers.
InitiateReturned(c) ==
    /\ c \in 1 .. callSeq
    /\ ~ \E r \in Slots : req[r].op = "initiate" /\ req[r].pc = "commit" /\ req[r].callId = c
C5_RowsUnique ==
    /\ \A c \in CallIds :
          /\ Cardinality(SessionRows(call_sessions, c)) <= 1
          /\ InitiateReturned(c) => Cardinality(SessionRows(call_sessions, c)) = 1
    /\ \A c \in CallIds, u \in Users :
          Cardinality(ParticipantRows(call_participants, c, u)) <= 1
C5_Witness ==
    \E r, q \in Slots :
        /\ r # q /\ AnswerDone(r) /\ AnswerDone(q)
        /\ req[r].res.code = 200 /\ req[q].res.code = 200
        /\ req[r].callId = req[q].callId /\ req[r].userId = req[q].userId
        /\ Cardinality(ParticipantRows(call_participants, req[r].callId, req[r].userId)) = 1

\* C6: a user who had no registered connection when notifyIncomingCall ran, and
\* who has since registered a connection, before the expiry and with the session
\* still ringing, has received exactly one incoming-call event of the call once
\* the register-user handlers have run to their end.
ReceivedBy(u, c) ==
    SumOver({s \in Sockets : sock[s].userId = u}, [s \in Sockets |-> received[s][c]])
C6_PendingDeliveredOnce ==
    \A t \in timers :
        LET u == t.recipientId
            c == t.callId
        IN (/\ StatusOf(c) = "ringing"
            /\ \E s \in Get(userSockets, u) : sock[s].state = "connected"
            /\ \A s \in Sockets : handler[s].userId = u => handler[s].pc = "idle")
           => ReceivedBy(u, c) = 1

\* C7: register-user checks each queued entry against the status the Store holds
\* at that moment; an entry whose session is not ringing then is not emitted, no
\* connection receives it, and the queue is gone when the handler ends.
C7_StaleEntryDropped ==
    [][\A s \in Sockets :
          /\ (handler[s].pc = "query" /\ handler'[s].pc = "reply")
                => handler'[s].status = StatusOf(handler[s].arr[handler[s].idx].callId)
          /\ (last'.op = "register-user reply" /\ last'.sock = s /\ handler[s].pc = "reply"
                /\ handler[s].status # "ringing")
                => /\ last'.emits = NoEmits
                   /\ received' = received
                   /\ handler'[s].pc = "idle"
                         => ~ Has(pendingCallNotifications', handler[s].userId)]_vars
C7_Witness ==
    /\ last.op = "register-user reply"
    /\ last.status \in {"active", "rejected", "ended"}
    /\ last.emits = NoEmits
    /\ received[last.sock][last.callId] = 0
    /\ ~ Has(pendingCallNotifications, last.user)

\* C8: a relay event (offer, answer or ICE candidate) addressed to a user who has
\* two registered connections, by name or by a broadcast to a call the user has
\* joined, is emitted once to each of the two connections.
RelayEvents == {"webrtc-offer", "webrtc-answer", "ice-candidate"}
Addressees ==
    IF last.target \notin {"", "all"}
    THEN {last.target}
    ELSE Get(callParticipants, last.callId) \ {last.user}
C8_RelayReachesBothConnections ==
    last.op = "sendToTarget" =>
        \A u \in Addressees :
            Cardinality(Get(userSockets, u)) = 2 =>
                \A s \in userSockets[u] :
                    \E ev \in RelayEvents : Count(last.emits, s, ev, last.callId) = 1
C8_Witness ==
    /\ last.op = "sendToTarget"
    /\ last.target = "all"
    /\ last.user = "A"
    /\ "B" \in Get(callParticipants, last.callId)
    /\ Cardinality(Get(userSockets, "B")) = 2
    /\ \A s \in Get(userSockets, "B") : Count(last.emits, s, "webrtc-offer", last.callId) = 1

\* C9: notifyIncomingCall emits incoming-call once to every connection of each
\* resolved member, other than the initiator, who has a registered connection,
\* and queues nothing for them; it queues exactly one entry, with its timer, for
\* each such member who has none, and emits nothing to them; the initiator gets
\* neither an emission nor a queue entry.
C9_NotifyPartition ==
    last.op = "notifyIncomingCall" =>
        LET c == last.callId
            initiator == last.user
            others == last.members \ {initiator}
        IN /\ \A m \in others :
                 IF Get(userSockets, m) # {}
                 THEN /\ \A s \in userSockets[m] :
                            Count(last.emits, s, "incoming-call", c) = 1
                      /\ QueuedFor(m, c) = 0
                 ELSE /\ QueuedFor(m, c) = 1
                      /\ [recipientId |-> m, callId |-> c] \in timers
           /\ QueuedFor(initiator, c) = 0
           /\ \A e \in BagToSet(last.emits) :
                 /\ e.ev = "incoming-call" /\ e.callId = c
                 /\ e.to \notin Get(userSockets, initiator)
                 /\ \E m \in others : e.to \in Get(userSockets, m)
C9_Witness ==
    /\ last.op = "notifyIncomingCall"
    /\ last.members = RoomMembers
    /\ Has(userSockets, last.user)
    /\ Cardinality(Get(userSockets, "B")) = 2
    /\ BagCardinality(last.emits) = 2
    /\ QueuedFor("C", last.callId) = 1

\* C10: a successful initiate answers 201 with status ringing, its call id and
\* the three ICE servers; its COMMIT makes visible, all at once, one ringing
\* session row, one participant row (the initiator, joined) and one
\* call_initiated event, and nothing of the call is visible before.
RowsOfCall(c) ==
    Cardinality(SessionRows(call_sessions, c))
    + Cardinality(CallParticipantRows(call_participants, c))
    + BagCardinality([e \in {x \in BagToSet(call_events) : x.call_id = c} |->
                         CopiesIn(e, call_events)])
EndOutcome ==
    last.op = "EndNotify" =>
        LET c == last.callId
        IN /\ \E r \in Slots :
                 /\ req[r].op = "end" /\ req[r].pc = "done" /\ req[r].callId = c
                 /\ req[r].res.code = 200 /\ req[r].res.status = "ended"
           /\ SessionRow(c).status = "ended"
           /\ SessionRow(c).ended_at # NULL
           /\ \A i \in CallParticipantRows(call_participants, c) :
                 call_participants[i].status # "joined"
           /\ \A p \in Get(callParticipants, c) \ {last.user} :
                 \A s \in Get(userSockets, p) :
                     /\ Count(last.emits, s, "call-ended", c) >= 1
                     /\ \A e \in BagToSet(last.emits) : e.to = s => e.by = last.user
C11_EndOutcome ==
    [][/\ EndOutcome'
       /\ (last.op = "EndNotify" /\ last'.op = "StatusSelect" /\ last'.callId = last.callId)
             => \E r \in Slots :
                    /\ req'[r].op = "status" /\ req'[r].pc = "participants"
                    /\ req'[r].session[1].status = "ended"]_vars
C11_Witness ==
    /\ last.op = "EndNotify"
    /\ last.user = "A"
    /\ "B" \in Get(callParticipants, last.callId)
    /\ Cardinality(Get(userSockets, "B")) = 2
    /\ \A s \in Get(userSockets, "B") : Count(last.emits, s, "call-ended", last.callId) >= 1
    /\ \E i \in CallParticipantRows(call_participants, last.callId) :
          call_participants[i].status = "left" /\ call_participants[i].left_at # NULL

\* C12: when the transaction of an answer commits, the session is active with
\* started_at set and both the initiator's and the answerer's participant rows
\* are joined, whatever join-call, leave-call or disconnect events came before.
RowStatus(c, u) ==
    {call_participants[i].status : i \in ParticipantRows(call_participants, c, u)}
C12_BothJoinedAfterAnswer ==
    [][\A r \in Slots :
          (req[r].op = "answer" /\ req[r].pc = "commit" /\ req'[r].pc = "notify") =>
              LET c == req[r].callId
              IN /\ SessionRow(c)'.status = "active"
                 /\ SessionRow(c)'.started_at # NULL
                 /\ RowStatus(c, req[r].initiator_id)' = {"joined"}
                 /\ RowStatus(c, req[r].userId)' = {"joined"}]_vars

\* C13: call-answered is emitted only by an answer whose transaction has
\* committed (its call_answered event and started_at are in the Store), once to
\* every connection the initiator has registered at that moment and to no other;
\* an answer that fails (not found, not ringing, Store failure) emits nothing.
C13_CallAnsweredAfterCommit ==
    /\ \A e \in BagToSet(last.emits) : e.ev = "call-answered" => last.op = "AnswerNotify"
    /\ last.op = "AnswerNotify" =>
          LET c == last.callId
              u == last.user
              initiatorSockets == Get(userSockets, SessionRow(c).initiator_id)
          IN /\ \E r \in Slots :
                   /\ AnswerDone(r) /\ req[r].callId = c /\ req[r].userId = u
                   /\ req[r].res.code = 200
             /\ SessionRow(c).started_at # NULL
             /\ CopiesIn(EventRow(c, u, "call_answered"), call_events) >= 1
             /\ RowStatus(c, u) # {}
             /\ \A s \in initiatorSockets : Count(last.emits, s, "call-answered", c) = 1
             /\ \A e \in BagToSet(last.emits) :
                   /\ e.ev = "call-answered" /\ e.callId = c /\ e.by = u
                   /\ e.to \in initiatorSockets
    /\ \A r \in Slots :
          (AnswerDone(r) /\ req[r].res.code # 200 /\ last.op \in {"AnswerSelect", "Thrown"})
              => last.emits = NoEmits
C13_Witness ==
    /\ last.op = "AnswerNotify"
    /\ Cardinality(Get(userSockets, "A")) = 2
    /\ BagCardinality(last.emits) = 2
    /\ SessionRow(last.callId).status = "active"

\* C14: the disconnect of a connection whose user still has another registered
\* connection changes no participant row and broadcasts no user-left; the row
\* is marked left and user-left is broadcast only by the user's last connection.
C14_LeftOnlyOnLastDisconnect ==
    [][(last'.op = "disconnect" /\ Get(userSockets', last'.user) # {})
          => /\ call_participants' = call_participants
             /\ \A e \in BagToSet(last'.emits) : e.ev # "user-left"]_vars

\* C15: a refused m.call event or membership request never makes initiate,
\* answer, reject or end answer an error and never undoes their writes: the
\* step commits the session row in the status of the operation and the handler
\* goes on to its success response.
StatusWritten(op) ==
    CASE op = "initiate" -> "ringing"
      [] op = "answer" -> "active"
      [] op = "reject" -> "rejected"
      [] OTHER -> "ended"
C15_UpstreamFailureHarmless ==
    [][/\ \A r \in Slots : req'[r].res.code # 500
       /\ last'.upstream = FALSE =>
             \E r \in Slots :
                 /\ req[r].pc = "commit" /\ req'[r].pc = "notify"
                 /\ StatusOf(req[r].callId)' = StatusWritten(req[r].op)
                 /\ BagCardinality(call_events') = BagCardinality(call_events) + 1
                 /\ req[r].op = "initiate" => req'[r].res.code = 201
       /\ (last'.op = "notifyIncomingCall" /\ last'.members = {}) =>
             /\ store' = store
             /\ \E r \in Slots :
                    /\ req'[r].op = "initiate" /\ req'[r].pc = "done"
                    /\ req'[r].res.code = 201 /\ req'[r].res = req[r].res
       /\ \A r \in Slots :
             (req[r].pc = "notify" /\ req'[r].pc = "done" /\ req[r].op # "initiate")
                 => req'[r].res.code = 200]_vars
C15_Witness ==
    /\ last.op = "EndCommit"
    /\ last.upstream = FALSE
    /\ StatusOf(last.callId) = "ended"
    /\ EventCount(last.callId, "call_ended") = 1

C17_InvalidInitiateRejected ==
    [][\A r \in Slots :
          (req[r].pc \in {"idle", "done"} /\ req'[r] # req[r] /\ req'[r].op = "initiate") =>
              LET rq == req'[r]
                  invalid == \/ rq.roomId = "" \/ rq.callType = "" \/ rq.accessToken = ""
                             \/ rq.userId = NoUser \/ rq.callType \notin {"voice", "video"}
              IN IF invalid
                 THEN /\ rq.pc = "done" /\ rq.res.code = 400 /\ rq.res.callId = NoCall
                      /\ store' = store /\ registry' = registry /\ callSeq' = callSeq
                      /\ received' = received /\ last'.emits = NoEmits
                 ELSE rq.pc = "commit"]_vars
C17_Witness ==
    /\ last.op = "InitiateBegin"
    /\ \E r \in Slots :
          /\ req[r].op = "initiate" /\ req[r].pc = "done" /\ req[r].callType = "screen"
          /\ req[r].roomId = "R" /\ req[r].userId = "A" /\ req[r].accessToken = "tok"
          /\ req[r].res.code = 400 /\ req[r].res.error = "callType must be voice or video"
    /\ Has(userSockets, "B")

\* C18: the status query changes nothing; it answers 404 for a call id with no
\* committed session and otherwise returns the session row as read, with its
\* status, and every participant row of the call; a committed session stays.
C18_StatusQuery ==
    [][/\ \A c \in CallIds : SessionExists(c) => SessionExists(c)'
       /\ \A r \in Slots :
             /\ (req[r].pc \in {"idle", "done"} /\ req'[r] # req[r] /\ req'[r].op = "status") =>
                   LET c == req'[r].callId
                   IN /\ store' = store /\ registry' = registry
                      /\ IF SessionExists(c)
                         THEN /\ req'[r].pc = "participants"
                              /\ req'[r].session = << SessionRow(c) >>
                         ELSE /\ req'[r].pc = "done" /\ req'[r].res.code = 404
             /\ (req[r].op = "status" /\ req[r].pc = "participants" /\ req'[r].pc = "done") =>
                   LET c == req[r].callId
                       rows == CallParticipantRows(call_participants, c)
                   IN /\ store' = store /\ registry' = registry
                      /\ req'[r].res.code = 200
                      /\ req'[r].session[1].call_id = c
                      /\ req'[r].res.status = req'[r].session[1].status
                      /\ Cardinality(req'[r].participants) = Cardinality(rows)
                      /\ \A i \in rows : \E p \in req'[r].participants :
                            /\ p.matrix_user_id = call_participants[i].matrix_user_id
                            /\ p.status = call_participants[i].status]_vars
C18_Witness ==
    /\ last.op = "StatusReply"
    /\ \E r \in Slots :
          /\ req[r].op = "status" /\ req[r].pc = "done" /\ req[r].res.code = 200
          /\ req[r].session[1].status = "active"
          /\ {p.matrix_user_id : p \in req[r].participants} = {"A", "B"}
          /\ \A p \in req[r].participants : p.status = "joined"

\* C19: once notifyIncomingCall has run for a call, every resolved room member
\* other than the initiator has a participant row with status invited.
C19_MembersInvited ==
    last.op = "notifyIncomingCall" =>
        \A u \in last.members \ {last.user} : RowStatus(last.callId, u) = {"invited"}

\* C20: the list of active calls of u holds only sessions that are ringing, not
\* initiated by u, younger than 90 seconds and in which u has an invited
\* participant row; producing it changes nothing.
C20_ActiveCallsFiltered ==
    [][\A r \in Slots :
         (req[r].pc \in {"idle", "done"} /\ req'[r] # req[r] /\ req'[r].op = "active") =>
            /\ store' = store /\ registry' = registry /\ aged' = aged
            /\ \A row \in req'[r].calls :
                  /\ StatusOf(row.call_id) = "ringing" /\ row.status = "ringing"
                  /\ row.initiator_id # req'[r].userId
                  /\ SessionRow(row.call_id).initiator_id = row.initiator_id
                  /\ row.call_id \notin aged
                  /\ RowStatus(row.call_id, req'[r].userId) = {"invited"}]_vars
\* B asks while A's call is ringing, recent, and B has no participant row.
C20_Witness ==
    /\ last.op = "active" /\ last.user = "B"
    /\ \E r \in Slots :
          /\ req[r].op = "active" /\ req[r].pc = "done" /\ req[r].res.code = 200
          /\ req[r].calls = {}
    /\ \E c \in CallIds :
          /\ StatusOf(c) = "ringing" /\ SessionRow(c).initiator_id = "A"
          /\ c \notin aged
          /\ RowStatus(c, "B") = {}

\* C21: a toggle request sets the participant's audio_enabled (video_enabled) to
\* the value sent, whatever it was before, so a second request with the same
\* value leaves it as the first did; each request appends one audio_toggled
\* (video_toggled) event.
Media(row, kind) == IF kind = "audio" THEN row.audio_enabled ELSE row.video_enabled
C21_ToggleTwice ==
    [][\A r \in Slots :
         /\ (req[r].pc \in {"idle", "done"} /\ req'[r].op = "toggle" /\ req'[r].pc = "event") =>
               LET c == req'[r].callId
                   u == req'[r].userId
                   kind == req'[r].kind
                   other == IF kind = "audio" THEN "video" ELSE "audio"
               IN /\ call_events' = call_events
                  /\ DOMAIN call_participants' = DOMAIN call_participants
                  /\ \A i \in ParticipantRows(call_participants, c, u) :
                        /\ Media(call_participants'[i], kind) = req'[r].enabled.value
                        /\ Media(call_participants'[i], other) =
                              Media(call_participants[i], other)
                        /\ call_participants'[i].status = call_participants[i].status
         /\ (req[r].op = "toggle" /\ req[r].pc = "event" /\ req'[r].pc = "done"
               /\ req'[r].res.code = 200) =>
               /\ call_participants' = call_participants
               /\ EventCount(req[r].callId, ToggledType(req[r].kind))' =
                     EventCount(req[r].callId, ToggledType(req[r].kind)) + 1]_vars
\* Two requests of A to switch audio off have completed.
C21_Witness ==
    /\ last.op = "ToggleInsert"
    /\ \E r \in Slots :
          /\ req[r].op = "toggle" /\ req[r].pc = "done" /\ req[r].res.code = 200
          /\ req[r].kind = "audio" /\ req[r].enabled = Boolean(FALSE)
    /\ EventCount(1, "audio_toggled") = 2
    /\ \A i \in ParticipantRows(call_participants, 1, "A") :
          ~call_participants[i].audio_enabled /\ call_participants[i].video_enabled
    /\ ParticipantRows(call_participants, 1, "A") # {}

\* C29: a toggle, sent as a request or as a socket event, sets the participant's
\* boolean, appends one toggle event and tells the sockets in the room of the
\* call (audio-toggled or video-toggled).
C29_ToggleSetsLogsTells ==
    [][/\ \A r \in Slots :
            (req[r].op = "toggle" /\ req[r].pc = "event" /\ req'[r].pc = "done"
               /\ req'[r].res.code = 200
               /\ ParticipantRows(call_participants, req[r].callId, req[r].userId) # {}) =>
               /\ EventCount(req[r].callId, ToggledType(req[r].kind))' =
                     EventCount(req[r].callId, ToggledType(req[r].kind)) + 1
               /\ \A s \in RoomSockets(req[r].callId) :
                     Count(last'.emits, s, req[r].kind \o "-toggled", req[r].callId) = 1
       /\ \A kind \in {"audio", "video"}, c \in CallIds :
            (last'.op = "toggle-" \o kind /\ last'.callId = c
               /\ sockCount' = sockCount + 1
               /\ ParticipantRows(call_participants, c, last'.user) # {}) =>
               /\ \A s \in RoomSockets(c) \ {last'.sock} :
                     Count(last'.emits, s, kind \o "-toggled", c) = 1
               /\ EventCount(c, ToggledType(kind))' =
                     EventCount(c, ToggledType(kind)) + 1]_vars

\* C22: an end request for a session that is already ended is accepted and
\* answered 200; its transaction leaves the session ended and every participant
\* status as it was, and appends one more call_ended event.
C22_EndAgain ==
    [][\A r \in Slots :
         /\ (req[r].pc \in {"idle", "done"} /\ req'[r] # req[r] /\ req'[r].op = "end"
               /\ req'[r].userId # NoUser /\ StatusOf(req'[r].callId) = "ended") =>
               req'[r].pc = "update"
         /\ (req[r].op = "end" /\ req[r].pc = "commit" /\ req'[r].pc = "notify"
               /\ StatusOf(req[r].callId) = "ended") =>
               LET c == req[r].callId
               IN /\ StatusOf(c)' = "ended"
                  /\ SessionRow(c)'.ended_at # NULL
                  /\ DOMAIN call_participants' = DOMAIN call_participants
                  /\ \A i \in DOMAIN call_participants :
                        call_participants'[i].status = call_participants[i].status
                  /\ EventCount(c, "call_ended")' = EventCount(c, "call_ended") + 1
         /\ (req[r].op = "end" /\ req[r].pc = "notify" /\ req'[r].pc = "done") =>
               /\ req'[r].res.code = 200 /\ req'[r].res.status = "ended"
               /\ store' = store]_vars
\* The second end of the call has been answered.
C22_Witness ==
    /\ last.op = "EndNotify"
    /\ \E r \in Slots : req[r].op = "end" /\ req[r].pc = "done" /\ req[r].res.code = 200
    /\ EventCount(1, "call_ended") = 2
    /\ StatusOf(1) = "ended"
    /\ \A i \in CallParticipantRows(call_participants, 1) :
          call_participants[i].status = "left"
    /\ CallParticipantRows(call_participants, 1) # {}

\* C23: when the transaction of a reject of a ringing call by a user other than
\* the initiator commits, the session is rejected with ended_at set, the user's
\* participant row exists with status rejected and one call_rejected event is
\* appended; the step after it sends call-rejected to every socket of the
\* initiator.
C23_RejectOutcome ==
    [][\A r \in Slots :
         /\ (req[r].op = "reject" /\ req[r].pc = "commit" /\ req'[r].pc = "notify"
               /\ StatusOf(req[r].callId) = "ringing"
               /\ req[r].userId # req[r].initiator_id) =>
               LET c == req[r].callId
                   u == req[r].userId
               IN /\ StatusOf(c)' = "rejected"
                  /\ SessionRow(c)'.ended_at # NULL
                  /\ EventCount(c, "call_rejected")' = EventCount(c, "call_rejected") + 1
                  /\ RowStatus(c, u)' = {"rejected"}
         /\ (req[r].op = "reject" /\ req[r].pc = "notify" /\ req'[r].pc = "done") =>
               /\ StatusOf(req[r].callId) # "ringing"
               /\ \A s \in Sockets :
                     Count(last'.emits, s, "call-rejected", req[r].callId) =
                        IF s \in Get(userSockets, req[r].initiator_id) THEN 1 ELSE 0]_vars

\* C24: a relay by a socket in the room of a call, addressed to user u or to the
\* whole call, is emitted to every other connected socket that has joined the
\* call as u (as anyone but the sender, when addressed to the whole call).
C24_JoinedSocketReceives ==
    (last.op = "sendToTarget" /\ last.callId \in sock[last.sock].rooms) =>
        \A s \in Sockets \ {last.sock} :
            (/\ sock[s].state = "connected"
             /\ last.callId \in sock[s].rooms
             /\ sock[s].userId # last.user
             /\ last.target \in {sock[s].userId, "", "all"}) =>
                \E e \in BagToSet(last.emits) : e.to = s /\ e.callId = last.callId

\* C25: a connection that has disconnected is in no user's set of userSockets,
\* and no user is left with an empty set.
C25_DisconnectedInNoSet ==
    /\ \A s \in Sockets : sock[s].state = "closed" =>
          \A u \in DOMAIN userSockets : s \notin userSockets[u]
    /\ \A u \in DOMAIN userSockets : userSockets[u] # {}

\* C26: a user in the callParticipants set of a call has a connected socket that
\* joined the call under that user id and is still in its room.
C26_MembersAttached ==
    \A c \in DOMAIN callParticipants : \A u \in callParticipants[c] :
        \E s \in Sockets :
            sock[s].state = "connected" /\ c \in sock[s].rooms /\ sock[s].userId = u

\* C27: while a webrtc-offer or webrtc-answer of a socket has arrived and is not
\* yet relayed, no ice-candidate of that socket for the same call and target is
\* delivered to the target.
C27_RelayedInArrivalOrder ==
    [][(last'.op = "sendToTarget" /\ relays' = relays) =>
          \A x \in relays :
              (x.sock = last'.sock /\ x.callId = last'.callId
                  /\ x.targetUserId = last'.target) =>
                  ~ \E e \in BagToSet(last'.emits) : e.ev = "ice-candidate"]_vars

\* C28: an entry of the pending queue is gone when its timer has fired, and with
\* timers that fire every entry (userId, callId) put in the queue is eventually
\* out of it, delivered or not, whether the user registers or not.
C28_PendingExpires ==
    /\ [][\A t \in timers : t \notin timers' =>
              QueuedFor(t.recipientId, t.callId)' = 0]_vars
    /\ \A u \in Users, c \in CallIds :
          (QueuedFor(u, c) > 0) ~> (QueuedFor(u, c) = 0)
\* B never connected: the entry queued for B is gone with its timer.
C28_Witness ==
    /\ \E r \in Slots : /\ req[r].op = "initiate" /\ req[r].pc = "done"
                        /\ req[r].res.code = 201
    /\ \A s \in Sockets : sock[s].state = "new"
    /\ timers = {}
    /\ ~Has(pendingCallNotifications, "B")

\* The sockets registered for the users a relay is addressed to.
Recipients == UNION {Get(userSockets, u) : u \in Addressees}

\* C30: a relay addressed to the whole call (target 'all' or none) is emitted to
\* every socket registered for a user of the call's callParticipants set other
\* than the sender and to no socket registered for the sender; a relay that
\* names a user is emitted to every socket registered for that user; no other
\* socket is emitted to.
C30_RelayAddressing ==
    last.op = "sendToTarget" =>
        /\ \A s \in Sockets :
              (\E e \in BagToSet(last.emits) : e.to = s) <=> s \in Recipients
        /\ \A e \in BagToSet(last.emits) :
              e.callId = last.callId /\ e.by = last.user /\ e.ev \in RelayEvents
        /\ last.target \in {"", "all"} =>
              \A s \in Get(userSockets, last.user) :
                  ~ \E e \in BagToSet(last.emits) : e.to = s

\* C31: an answer whose statements interleave with those of an end or a reject
\* of the same ringing session does not make the session active once the end or
\* the reject has committed.
C31_AnswerNotAfterEnd ==
    [][\A r \in Slots :
         (req[r].op = "answer" /\ req[r].pc = "commit" /\ req'[r].pc = "notify"
            /\ StatusOf(req[r].callId) \in {"ended", "rejected"}) =>
            StatusOf(req[r].callId)' # "active"]_vars

\* C33: for one end, no socket is sent call-ended more than once, also one that
\* is registered for its user and has joined the room of the call, and no
\* socket registered for the user who ended the call is sent it.
C33_CallEndedOnce ==
    last.op = "EndNotify" =>
        /\ \A s \in Sockets : Count(last.emits, s, "call-ended", last.callId) <= 1
        /\ \A s \in Get(userSockets, last.user) :
              Count(last.emits, s, "call-ended", last.callId) = 0

\* C35: an offer, answer or ice-candidate relayed for a call is emitted only
\* to sockets registered for users in the callParticipants set of that call.
C35_RelayStaysInCall ==
    last.op = "sendToTarget" =>
        \A e \in BagToSet(last.emits) :
            \E u \in Get(callParticipants, last.callId) : e.to \in Get(userSockets, u)

\* C40: a socket id is in the userSockets set of at most one user.
C40_OneUserPerSocket ==
    \A u, v \in DOMAIN userSockets : u # v => userSockets[u] \cap userSockets[v] = {}

\* C34: in every state of the Store an active session has started_at set, an
\* ended or rejected session has ended_at set, a ringing session has neither,
\* and no session has the status missed.
C34_TimestampsFollowStatus ==
    \A i \in DOMAIN call_sessions :
        LET row == call_sessions[i]
        IN /\ row.status = "active" => row.started_at # NULL
           /\ row.status \in {"ended", "rejected"} => row.ended_at # NULL
           /\ row.status = "ringing" => row.started_at = NULL /\ row.ended_at = NULL
           /\ row.status # "missed"

C34_Witness ==
    \E i \in DOMAIN call_sessions :
        /\ call_sessions[i].status = "ended"
        /\ call_sessions[i].started_at # NULL
        /\ call_sessions[i].ended_at # NULL

\* C38: in every state no user of userSockets has an empty set of sockets, no
\* call of callParticipants has an empty set of users and no user of
\* pendingCallNotifications has an empty list.
C38_NoEmptyCollection ==
    /\ \A u \in DOMAIN userSockets : userSockets[u] # {}
    /\ \A c \in DOMAIN callParticipants : callParticipants[c] # {}
    /\ \A u \in DOMAIN pendingCallNotifications : pendingCallNotifications[u] # <<>>

\* The last socket of a user has disconnected and the last member has left a room.
C38_Witness ==
    /\ last.op = "disconnect"
    /\ last.user # NoUser
    /\ ~Has(userSockets, last.user)
    /\ \E s \in Sockets : sock[s].state = "connected" /\ sock[s].callId # NoCall
                           /\ ~Has(callParticipants, sock[s].callId)

\* C36: join-call and the relays of webrtc-offer, webrtc-answer and
\* ice-candidate leave the session rows, userSockets and the pending queue as
\* they are, and a step of a socket event other than leave-call and disconnect
\* changes the status of no participant row.
RelayOps == {"join-call", "webrtc-offer", "webrtc-answer", "sendToTarget"}
ParticipantStatuses ==
    {<<call_participants[i].call_id, call_participants[i].matrix_user_id,
       call_participants[i].status>> : i \in DOMAIN call_participants}
C36_RealtimeFrame ==
    [][/\ last'.op \in RelayOps =>
            /\ call_sessions' = call_sessions
            /\ userSockets' = userSockets
            /\ pendingCallNotifications' = pendingCallNotifications
       /\ (req' = req /\ last'.op \notin {"leave-call", "disconnect"}) =>
            ParticipantStatuses' = ParticipantStatuses]_vars

\* A relay has reached a socket while a session row, a joined participant row
\* of the sender and a queued notification exist.
C36_Witness ==
    /\ last.op = "sendToTarget"
    /\ last.emits # NoEmits
    /\ <<last.callId, last.user, "joined">> \in ParticipantStatuses
    /\ SessionExists(last.callId)
    /\ DOMAIN pendingCallNotifications # {}
    /\ last.user \in Get(callParticipants, last.callId)

\* C37: an initiate, answer, reject or end request that has taken a client from
\* the pool has released it exactly once when its handler has finished, never
\* releases more often than it has acquired, and has then written exactly one
\* response.
C37_ReleasedOnceAnsweredOnce ==
    \A r \in Slots :
        req[r].op \in {"initiate", "answer", "reject", "end"} =>
            /\ req[r].released <= req[r].clients
            /\ req[r].sent <= 1
            /\ req[r].pc = "done" =>
                  /\ req[r].released = req[r].clients
                  /\ req[r].sent = 1

\* C32: when the last step of a register-user handler removes the queue of its
\* user, every entry of that queue is one the handler has read and checked
\* against the Store; an entry queued while the handler was suspended is not
\* removed unexamined.
C32_NoneDiscardedUnexamined ==
    [][\A u \in Users, s \in Sockets :
          (/\ last'.op = "register-user reply"
           /\ last'.sock = s
           /\ Has(pendingCallNotifications, u)
           /\ ~Has(pendingCallNotifications', u)) =>
              \A i \in 1 .. Len(pendingCallNotifications[u]) :
                  \E j \in 1 .. Len(handler[s].arr) :
                      handler[s].arr[j] = pendingCallNotifications[u][i]]_vars

\* C39: the timer of (u, c) removes from the pending queue exactly the entries
\* of u for call c: u's entries for other calls stay, in their order, the
\* queues of the other users stay as they are, and when u has no queue the
\* queue map stays as it is.
C39_TimerRemovesItsEntry ==
    [][\A t \in timers :
          timers' = timers \ {t} =>
              LET u == t.recipientId
                  before == PendingOf(pendingCallNotifications, u)
                  after == PendingOf(pendingCallNotifications', u)
              IN /\ \A i \in 1 .. Len(after) : after[i].callId # t.callId
                 /\ after = SelectSeq(before, LAMBDA e : e.callId # t.callId)
                 /\ \A v \in Users \ {u} :
                       PendingOf(pendingCallNotifications', v)
                           = PendingOf(pendingCallNotifications, v)
                 /\ ~Has(pendingCallNotifications, u) =>
                       pendingCallNotifications' = pendingCallNotifications]_vars

\* B was offline when call 1 rang and its timer has fired; B's entry for call 2
\* and both entries of C are still queued.
C39_Witness ==
    /\ received["s1"][1] = 0
    /\ [recipientId |-> "B", callId |-> 1] \notin timers
    /\ [recipientId |-> "B", callId |-> 2] \in timers
    /\ Len(PendingOf(pendingCallNotifications, "B")) = 1
    /\ PendingOf(pendingCallNotifications, "B")[1].callId = 2
    /\ Len(PendingOf(pendingCallNotifications, "C")) = 2
    /\ sock["s1"].state = "new"

====
